---- MODULE Spec2Model ----
(***************************************************************************)
(* MenuMap: the prompt matching engine (matcher.py), the menu query tools  *)
(* (tools.py) and the scraper's writes to the menu store (nyu_scraper.py). *)
(*                                                                         *)
(* Text is modelled by TLA+ strings, on which Len, SubSeq and \o act       *)
(* character by character.  A NULL column / Python None of a numeric       *)
(* field is the value Null; nutrient values are whole numbers >= 0.        *)
(***************************************************************************)
EXTENDS Integers, Sequences, FiniteSets, TLC

VARIABLES
    locations,   \* rows of table locations: records [id, name]
    store,       \* rows of table menu_items, in rowid order
    pc,          \* "idle" | "done": position of the single-threaded caller
    call         \* the last call: its operation, arguments and result

vars == <<locations, store, pc, call>>

Null == -1

-----------------------------------------------------------------------------
(* Bounds of the model *)

MaxRows == 2      \* rows in menu_items
MaxWords == 2     \* phrases in a prompt
MaxLimit == 2     \* largest limit argument
MaxBatch == 1     \* items in one save_menu_items call
MaxFilters == 1   \* optional filters given to one tool call
MaxMenu == 4      \* rows in menu_items when a tool reads one day's menu
MaxCalls == 2     \* tool calls in one response of the language model
MaxRounds == 2    \* responses with tool calls before the final answer

-----------------------------------------------------------------------------
(* Python str operations *)

UpperChars == "ABCDEFGHIJKLMNOPQRSTUVWXYZ"
LowerChars == "abcdefghijklmnopqrstuvwxyz"

\* str.lower() on one character
LowerTable ==
    [ch \in {SubSeq(UpperChars, i, i) : i \in 1..Len(UpperChars)} |->
        LET i == CHOOSE j \in 1..Len(UpperChars) : SubSeq(UpperChars, j, j) = ch
        IN  SubSeq(LowerChars, i, i)]

LowerChar(ch) == IF ch \in DOMAIN LowerTable THEN LowerTable[ch] ELSE ch

\* str.lower(): character by character, the text taken in halves
RECURSIVE Lower(_)
Lower(s) ==
    IF Len(s) = 0 THEN ""
    ELSE IF Len(s) = 1 THEN LowerChar(s)
    ELSE LET half == Len(s) \div 2
         IN  Lower(SubSeq(s, 1, half)) \o Lower(SubSeq(s, half + 1, Len(s)))

\* s[i:].startswith(k), i counted from 1
StartsAt(s, k, i) ==
    /\ i >= 1
    /\ i + Len(k) - 1 <= Len(s)
    /\ SubSeq(s, i, i + Len(k) - 1) = k

\* k in s
Contains(s, k) == \E i \in 1..(Len(s) - Len(k) + 1) : StartsAt(s, k, i)

\* s.split(",")
Split_Whole(s) == <<s>>

RECURSIVE SplitFrom(_, _, _)
SplitFrom(s, i, acc) ==
    IF i > Len(s) THEN <<acc>>
    ELSE IF SubSeq(s, i, i) = "," THEN <<acc>> \o SplitFrom(s, i + 1, "")
    ELSE SplitFrom(s, i + 1, acc \o SubSeq(s, i, i))

Split(s) == SplitFrom(s, 1, "")

InSeq(x, seq) == \E i \in 1..Len(seq) : seq[i] = x

RECURSIVE Flatten(_)
Flatten(ss) == IF Len(ss) = 0 THEN <<>> ELSE Head(ss) \o Flatten(Tail(ss))

-----------------------------------------------------------------------------
(* Regular expression pieces used by _parse_prompt *)

Digits == "0123456789"

IsDigit(ch) == \E i \in 1..Len(Digits) : SubSeq(Digits, i, i) = ch
DigitVal(ch) == (CHOOSE i \in 1..Len(Digits) : SubSeq(Digits, i, i) = ch) - 1
IsSpace(ch) == ch \in {" ", "\t"}

CharAt(s, i) == IF i >= 1 /\ i <= Len(s) THEN SubSeq(s, i, i) ELSE ""

InClass(ch, digit) == IF digit THEN IsDigit(ch) ELSE IsSpace(ch)

\* end (exclusive) of the maximal run of characters of the class from i
RunEnd(s, i, digit) ==
    CHOOSE j \in i..(Len(s) + 1) :
        /\ ~InClass(CharAt(s, j), digit)
        /\ \A k \in i..(j - 1) : InClass(CharAt(s, k), digit)

\* int(group) raises ValueError when the group has more than this many digits
\* (CPython's default sys.int_info.default_max_str_digits)
int_max_str_digits == 4300

IntRaises(d) == Len(d) > int_max_str_digits

\* int(group), for a group it accepts
RECURSIVE ParseInt(_)
ParseInt(d) ==
    IF Len(d) = 0 THEN 0
    ELSE ParseInt(SubSeq(d, 1, Len(d) - 1)) * 10 + DigitVal(SubSeq(d, Len(d), Len(d)))

\* positions reachable from P by \s*
SkipSpaces(s, P) == UNION {i..RunEnd(s, i, FALSE) : i \in P}

\* positions reachable from P by (?:k1|k2|...)?
Optional(s, ks, P) ==
    P \cup {ik[1] + Len(ik[2]) : ik \in {x \in P \X ks : StartsAt(s, x[2], x[1])}}

\* smallest element of a non-empty set of positions (re.search is leftmost)
Leftmost(P) == CHOOSE i \in P : \A j \in P : i <= j

\* starts of a match of   under (\d+) cal   (alternative of NUTRITION_PATTERNS)
UnderCalStarts(s) ==
    {i \in 1..Len(s) :
        /\ StartsAt(s, "under ", i)
        /\ IsDigit(CharAt(s, i + 6))
        /\ StartsAt(s, " cal", RunEnd(s, i + 6, TRUE))}

\* starts of a match of   under (\d+)\s*(?:cal|calories)
CalMatchStarts(s) ==
    {i \in 1..Len(s) :
        /\ StartsAt(s, "under ", i)
        /\ IsDigit(CharAt(s, i + 6))
        /\ \E p \in SkipSpaces(s, {RunEnd(s, i + 6, TRUE)}) :
              StartsAt(s, "cal", p) \/ StartsAt(s, "calories", p)}

\* the positions of s, and the one past its end, that hold no digit
NonDigits(s) == {j \in 1..(Len(s) + 1) : ~IsDigit(CharAt(s, j))}

\* end (exclusive) of the digit run from i: the first position without a digit
DigitsEnd(stops, i) == Leftmost({j \in stops : j >= i})

\* starts of a match of   (\d+)\s*(?:g|grams?)?\s*(?:of\s*)?protein
ProteinMatchStarts(s) ==
    LET stops == NonDigits(s) IN
    {i \in 1..Len(s) :
        /\ IsDigit(CharAt(s, i))
        /\ LET afterNum  == SkipSpaces(s, {DigitsEnd(stops, i)})
               afterUnit == SkipSpaces(s, Optional(s, {"g", "gram", "grams"}, afterNum))
               afterOf   == SkipSpaces(s, Optional(s, {"of"}, afterUnit))
           IN  \E p \in afterOf : StartsAt(s, "protein", p)}

\* group(1) of a match starting with the digits at i
DigitGroup(s, i) == SubSeq(s, i, RunEnd(s, i, TRUE) - 1)

-----------------------------------------------------------------------------
(* matcher.py: tables of MenuMatcher *)

None == "<None>"
Truthy(x) == x # None /\ x # ""

FOOD_KEYWORDS == <<
    <<"pizza", <<"pizza", "flatbread", "margherita">> >>,
    <<"burger", <<"burger", "hamburger", "cheeseburger">> >>,
    <<"chicken", <<"chicken", "poultry", "wings", "tenders", "grilled chicken">> >>,
    <<"salad", <<"salad", "greens", "lettuce", "spinach">> >>,
    <<"pasta", <<"pasta", "spaghetti", "penne", "linguine", "mac and cheese", "macaroni">> >>,
    <<"sandwich", <<"sandwich", "sub", "wrap", "panini", "hoagie">> >>,
    <<"breakfast", <<"eggs", "bacon", "pancakes", "waffle", "oatmeal", "cereal", "toast">> >>,
    <<"coffee", <<"coffee", "latte", "espresso", "cappuccino", "mocha">> >>,
    <<"smoothie", <<"smoothie", "shake", "blend">> >>,
    <<"soup", <<"soup", "chili", "stew", "broth">> >>,
    <<"asian", <<"stir fry", "rice bowl", "teriyaki", "lo mein", "fried rice", "sushi", "ramen">> >>,
    <<"mexican", <<"taco", "burrito", "quesadilla", "nachos", "guac">> >>,
    <<"healthy", <<"grilled", "steamed", "fresh", "salad", "lean">> >>,
    <<"comfort", <<"mac and cheese", "mashed", "gravy", "fried", "crispy">> >>,
    <<"sweet", <<"dessert", "cookie", "cake", "ice cream", "brownie", "muffin">> >>,
    <<"fruit", <<"fruit", "apple", "banana", "orange", "berry", "melon">> >>,
    <<"protein", <<"chicken", "beef", "steak", "fish", "salmon", "tuna", "tofu", "eggs">> >>
>>

DIETARY_PATTERNS == <<
    <<"vegan", "Vegan">>,
    <<"vegetarian", "Vegetarian">>,
    <<"gluten-free", "Avoiding Gluten">>,
    <<"gluten free", "Avoiding Gluten">>,
    <<"no gluten", "Avoiding Gluten">>,
    <<"halal", "Halal">>,
    <<"kosher", "Kosher">>
>>

Filter(nutrient, op, target) == [nutrient |-> nutrient, op |-> op, target |-> target]

\* re.search(pattern, s) for the five patterns, in dictionary order
NutritionPatternMatches(k, s) ==
    CASE k = 1 -> Contains(s, "high protein") \/ Contains(s, "protein rich")
                    \/ Contains(s, "lots of protein")
      [] k = 2 -> Contains(s, "low calorie") \/ Contains(s, "light")
                    \/ Contains(s, "diet") \/ UnderCalStarts(s) # {}
      [] k = 3 -> Contains(s, "low carb") \/ Contains(s, "keto")
      [] k = 4 -> Contains(s, "low fat")
      [] k = 5 -> Contains(s, "high calorie") \/ Contains(s, "bulking")
                    \/ Contains(s, "gains")

NUTRITION_PATTERNS == <<
    Filter("protein", ">=", 20),
    Filter("calories", "<=", 400),
    Filter("carbs", "<=", 20),
    Filter("fat", "<=", 10),
    Filter("calories", ">=", 600)
>>

DictSet_KeepExisting(d, f) ==
    IF \E i \in 1..Len(d) : d[i].nutrient = f.nutrient THEN d ELSE Append(d, f)

\* dict[key] = value on a dictionary kept as the sequence of its entries in
\* insertion order: an existing key keeps its place
DictSet(d, f) ==
    IF \E i \in 1..Len(d) : d[i].nutrient = f.nutrient
    THEN [i \in 1..Len(d) |-> IF d[i].nutrient = f.nutrient THEN f ELSE d[i]]
    ELSE Append(d, f)

-----------------------------------------------------------------------------
(* matcher.py: MenuMatcher._parse_prompt *)

\* the keywords of one category found in the prompt, in list order
KeywordsFound(kws, prompt_lower) == SelectSeq(kws, LAMBDA kw : Contains(prompt_lower, kw))

\* for category, keywords in FOOD_KEYWORDS.items(): for kw in keywords: ...
ExtractFoodKeywords(prompt_lower) ==
    Flatten([c \in 1..Len(FOOD_KEYWORDS) |->
                KeywordsFound(FOOD_KEYWORDS[c][2], prompt_lower)])

\* for pattern, tag in DIETARY_PATTERNS.items(): ...
ExtractDietaryFilters(prompt_lower) ==
    Flatten([d \in 1..Len(DIETARY_PATTERNS) |->
                IF Contains(prompt_lower, DIETARY_PATTERNS[d][1])
                THEN <<DIETARY_PATTERNS[d][2]>> ELSE <<>>])

\* (a parser that takes the period named first in the text)
ExtractPeriod_Leftmost(prompt_lower) ==
    LET at(lit) == {i \in 1..Len(prompt_lower) : StartsAt(prompt_lower, lit, i)}
        found   == {lit \in {"breakfast", "lunch", "dinner"} : at(lit) # {}}
        first   == CHOOSE lit \in found :
                      \A other \in found : Leftmost(at(lit)) <= Leftmost(at(other))
    IN  IF found = {} THEN None
        ELSE IF first = "breakfast" THEN "Breakfast"
        ELSE IF first = "lunch" THEN "Lunch"
        ELSE "Dinner"

\* if "breakfast" in prompt_lower: ... elif "lunch" ...: elif "dinner" ...:
ExtractPeriod(prompt_lower) ==
    IF Contains(prompt_lower, "breakfast") THEN "Breakfast"
    ELSE IF Contains(prompt_lower, "lunch") THEN "Lunch"
    ELSE IF Contains(prompt_lower, "dinner") THEN "Dinner"
    ELSE None

\* for pattern, filters in NUTRITION_PATTERNS.items(): ... update(filters)
RECURSIVE ApplyNutritionPatterns(_, _, _)
ApplyNutritionPatterns(prompt_lower, k, d) ==
    IF k > Len(NUTRITION_PATTERNS) THEN d
    ELSE ApplyNutritionPatterns(prompt_lower, k + 1,
            IF NutritionPatternMatches(k, prompt_lower)
            THEN DictSet(d, NUTRITION_PATTERNS[k]) ELSE d)

\* the specific calorie limit: applied after the generic patterns
ApplyCalorieLimit(prompt_lower, d) ==
    LET starts == CalMatchStarts(prompt_lower) IN
    IF starts = {} THEN d
    ELSE DictSet(d, Filter("calories", "<=",
                    ParseInt(DigitGroup(prompt_lower, Leftmost(starts) + 6))))

\* the protein target: applied last
ApplyProteinTarget(prompt_lower, d) ==
    LET starts == ProteinMatchStarts(prompt_lower) IN
    IF starts = {} THEN d
    ELSE DictSet(d, Filter("protein", ">=",
                    ParseInt(DigitGroup(prompt_lower, Leftmost(starts)))))

\* an exception leaving the function, in place of its result
ValueError == [raised |-> "ValueError"]
Raised(out) == "raised" \in DOMAIN out

\* one of the two int(match.group(1)) calls raises
ParseRaises(prompt_lower) ==
    LET cal     == CalMatchStarts(prompt_lower)
        protein == ProteinMatchStarts(prompt_lower)
    IN  \/ cal # {} /\ IntRaises(DigitGroup(prompt_lower, Leftmost(cal) + 6))
        \/ protein # {} /\ IntRaises(DigitGroup(prompt_lower, Leftmost(protein)))

_parse_prompt(prompt) ==
    LET prompt_lower == Lower(prompt) IN
    IF ParseRaises(prompt_lower) THEN ValueError ELSE
    [ food_keywords       |-> ExtractFoodKeywords(prompt_lower),
      dietary_filters     |-> ExtractDietaryFilters(prompt_lower),
      nutrition_filters   |->
          ApplyProteinTarget(prompt_lower,
              ApplyCalorieLimit(prompt_lower,
                  ApplyNutritionPatterns(prompt_lower, 1, <<>>))),
      period              |-> ExtractPeriod(prompt_lower),
      location_preference |-> None ]

-----------------------------------------------------------------------------
(* matcher.py: MenuMatcher._score_item *)

\* f"{value}": calories is an INTEGER column, the other nutrients are REAL
FormatValue(nutrient, value) ==
    IF nutrient = "calories" THEN ToString(value) ELSE ToString(value) \o ".0"

Scored(score, reasons) == [score |-> score, reasons |-> reasons]
Add(acc, points, reason) == Scored(acc.score + points, Append(acc.reasons, reason))

\* (a scorer that counts a keyword once however often it is listed)
RECURSIVE ScoreKeywords_Distinct(_, _, _, _)
ScoreKeywords_Distinct(item_name_lower, item_desc_lower, kws, acc) ==
    IF Len(kws) = 0 THEN acc
    ELSE LET kw == Head(kws) IN
         ScoreKeywords_Distinct(item_name_lower, item_desc_lower, Tail(kws),
            IF /\ Contains(item_name_lower, kw) \/ Contains(item_desc_lower, kw)
               /\ ~InSeq("matches '" \o kw \o "'", acc.reasons)
            THEN Add(acc, 20, "matches '" \o kw \o "'") ELSE acc)

\* for kw in parsed["food_keywords"]: ...
RECURSIVE ScoreKeywords(_, _, _, _)
ScoreKeywords(item_name_lower, item_desc_lower, kws, acc) ==
    IF Len(kws) = 0 THEN acc
    ELSE LET kw == Head(kws) IN
         ScoreKeywords(item_name_lower, item_desc_lower, Tail(kws),
            IF Contains(item_name_lower, kw) \/ Contains(item_desc_lower, kw)
            THEN Add(acc, 20, "matches '" \o kw \o "'") ELSE acc)

\* (a scorer that takes 30 points off for a dietary tag the item lacks)
RECURSIVE ScoreDietary_Penalty(_, _, _)
ScoreDietary_Penalty(item_tags, diet_tags, acc) ==
    IF Len(diet_tags) = 0 THEN acc
    ELSE LET diet_tag == Head(diet_tags) IN
         ScoreDietary_Penalty(item_tags, Tail(diet_tags),
            IF InSeq(diet_tag, item_tags) THEN Add(acc, 30, diet_tag)
            ELSE Scored(acc.score - 30, acc.reasons))

\* for diet_tag in parsed["dietary_filters"]: ...
RECURSIVE ScoreDietary(_, _, _)
ScoreDietary(item_tags, diet_tags, acc) ==
    IF Len(diet_tags) = 0 THEN acc
    ELSE LET diet_tag == Head(diet_tags) IN
         ScoreDietary(item_tags, Tail(diet_tags),
            IF InSeq(diet_tag, item_tags) THEN Add(acc, 30, diet_tag) ELSE acc)

\* (a scorer that gives the period no points)
ScorePeriod_NoPoints(item, parsed, acc) == acc

ScorePeriod_First(item, parsed, acc) ==
    IF Truthy(parsed.period) /\ item.period = parsed.period
    THEN Scored(acc.score + 10, <<parsed.period \o " item">> \o acc.reasons) ELSE acc

ScorePeriod(item, parsed, acc) ==
    IF Truthy(parsed.period) /\ item.period = parsed.period
    THEN Add(acc, 10, parsed.period \o " item") ELSE acc

\* (a scorer that reads a missing value as 0)
RECURSIVE ScoreNutrition_NullIsZero(_, _, _)
ScoreNutrition_NullIsZero(item, filters, acc) ==
    IF Len(filters) = 0 THEN acc
    ELSE LET f == Head(filters)
             value == IF item[f.nutrient] = Null THEN 0 ELSE item[f.nutrient]
         IN  ScoreNutrition_NullIsZero(item, Tail(filters),
                IF \/ f.op = ">=" /\ value >= f.target
                   \/ f.op = "<=" /\ value <= f.target
                THEN Add(acc, 20, f.nutrient \o ": " \o FormatValue(f.nutrient, value))
                ELSE acc)

\* for nutrient, (op, target) in parsed["nutrition_filters"].items(): ...
RECURSIVE ScoreNutrition(_, _, _)
ScoreNutrition(item, filters, acc) ==
    IF Len(filters) = 0 THEN acc
    ELSE LET f == Head(filters)
             value == item[f.nutrient]
         IN  ScoreNutrition(item, Tail(filters),
                IF value # Null
                   /\ \/ f.op = ">=" /\ value >= f.target
                      \/ f.op = "<=" /\ value <= f.target
                THEN Add(acc, 20, f.nutrient \o ": " \o FormatValue(f.nutrient, value))
                ELSE acc)

_score_item(item, parsed) ==
    LET item_name_lower == Lower(item.name)
        item_desc_lower == Lower(item.description)
        item_tags       == Split(item.dietary_tags)
    IN  ScoreNutrition(item, parsed.nutrition_filters,
            ScorePeriod(item, parsed,
                ScoreDietary(item_tags, parsed.dietary_filters,
                    ScoreKeywords(item_name_lower, item_desc_lower,
                                  parsed.food_keywords, Scored(0, <<>>)))))

-----------------------------------------------------------------------------
(* The menu store: tables locations and menu_items (nyu_scraper.py) *)

AllLocations == {
    [id |-> "L1", name |-> "NYU EATS at Third North"],
    [id |-> "L2", name |-> "NYU EATS at Downstein"] }

Dates == {1, 2}    \* two scrape days, ordered as their ISO date strings are

MenuItem(location_id, date, period, category, name, description, calories, protein, carbs, fat, fiber, sugar, sodium, dietary_tags) ==
    [ location_id |-> location_id, date |-> date, period |-> period,
      category |-> category, name |-> name, description |-> description,
      calories |-> calories, protein |-> protein, carbs |-> carbs, fat |-> fat,
      fiber |-> fiber, sugar |-> sugar, sodium |-> sodium,
      dietary_tags |-> dietary_tags ]

\* the items the scraper may deliver
ItemPool == {
    MenuItem("L1", 2, "Lunch", "Fresh 140 Sandwich", "Turkey Club", "",
             520, 25, 41, 18, 3, 6, 980, ""),
    MenuItem("L1", 2, "Lunch", "Fresh 140 Sandwich", "Turkey Club", "on a wrap",
             480, Null, 41, 18, 3, 6, Null, ""),
    MenuItem("L1", 2, "Breakfast", "Homestyle", "Egg White Omelet", "",
             200, 30, 2, 7, 0, 1, 300, "Vegetarian,Avoiding Gluten"),
    MenuItem("L2", 2, "Dinner", "Vedgecraft", "Tofu Stir Fry", "",
             Null, 18, Null, 9, 5, 4, 610, "Vegan,Avoiding Gluten"),
    MenuItem("L1", 2, "Lunch", "Salad Bar Protein", "Sliced Chicken Breast",
             "Grilled chicken", 60, 12, 0, 1, 0, 0, 150, "Avoiding Gluten"),
    MenuItem("L2", 2, "Lunch", "Paper Lantern Protein", "Chicken Teriyaki", "",
             300, 22, 14, 11, 1, 9, 890, ""),
    MenuItem("L2", 2, "Lunch", "Random Station XYZ", "Garden Bowl", "",
             400, 9, 55, 12, 8, 7, 420, "Vegan"),
    MenuItem("L2", 1, "Supper", "Halal Station", "Chicken Over Rice", "",
             650, 35, 60, 22, 2, 3, 1200, "Halal") }

\* the items the scraper may deliver from build-your-own stations
StationPool == {
    MenuItem("L1", 2, "Lunch", "Salad Bar Protein", "Sliced Chicken Breast",
             "Grilled chicken", 60, 12, 0, 1, 0, 0, 150, "Avoiding Gluten"),
    MenuItem("L1", 2, "Lunch", "Salad Bar Toppings", "Cottage Cheese", "",
             90, 11, 4, 2, 0, 4, 350, "Vegetarian"),
    MenuItem("L1", 2, "Lunch", "Salad Bar Toppings", "Cherry Tomatoes", "",
             15, Null, 3, 0, 1, 2, 5, "Vegan"),
    MenuItem("L1", 2, "Lunch", "Taqueria Base", "Brown Rice", "",
             110, 3, 23, 1, 2, 0, 5, "Vegan"),
    MenuItem("L1", 2, "Dinner", "Deli Sauce", "Pico de Gallo", "",
             10, 0, 2, 0, 0, 1, 120, "Vegan"),
    MenuItem("L2", 2, "Lunch", "Salad Bar Dressings", "Ranch Dressing", "",
             140, 8, 2, 14, 0, 1, 270, ""),
    MenuItem("L2", 2, "Lunch", "Paper Lantern Sides", "Egg Roll", "",
             180, 5, 22, 8, 1, 2, 390, ""),
    MenuItem("L2", 2, "Lunch", "Fresh 140 Sandwich", "Turkey Club", "",
             520, 25, 41, 18, 3, 6, 980, "") }

\* UNIQUE(location_id, date, period, category, name)
Key(item) == <<item.location_id, item.date, item.period, item.category, item.name>>

\* (a plain INSERT of one row)
Upsert_Insert(rows, item) == Append(rows, item)

\* INSERT OR REPLACE of one row: a row with the same key is deleted, and the
\* new row gets a fresh, largest rowid
Upsert(rows, item) ==
    Append(SelectSeq(rows, LAMBDA r : Key(r) # Key(item)), item)

RECURSIVE UpsertAll(_, _)
UpsertAll(rows, items) ==
    IF Len(items) = 0 THEN rows
    ELSE UpsertAll(Upsert(rows, Head(items)), Tail(items))

\* SELECT MAX(date) FROM menu_items
MaxDate(rows) ==
    IF Len(rows) = 0 THEN Null
    ELSE CHOOSE d \in {rows[i].date : i \in 1..Len(rows)} :
            \A i \in 1..Len(rows) : rows[i].date <= d

\* FROM menu_items mi JOIN locations l ON mi.location_id = l.id
\* the rows of menu_items that have a location, each with that location's name
Joined(rows, locs) ==
    LET has(r) == \E l \in locs : l.id = r.location_id
        nameOf(r) == (CHOOSE l \in locs : l.id = r.location_id).name
        kept == SelectSeq(rows, has)
    IN  [i \in 1..Len(kept) |-> [row |-> kept[i], location_name |-> nameOf(kept[i])]]

\* seq[:limit]
Slice(seq, limit) ==
    IF limit >= 0
    THEN SubSeq(seq, 1, IF limit < Len(seq) THEN limit ELSE Len(seq))
    ELSE SubSeq(seq, 1, IF Len(seq) + limit > 0 THEN Len(seq) + limit ELSE 0)

-----------------------------------------------------------------------------
(* The prompts given to the matcher *)

Vocabulary == { "", "chicken", "Vegan", "lunch", "Breakfast", "high protein",
                "bulking", "under 300 cal", "30g protein" }

RECURSIVE Join(_)
Join(ws) ==
    IF Len(ws) = 0 THEN ""
    ELSE IF Len(ws) = 1 THEN ws[1]
    ELSE ws[1] \o " " \o Join(Tail(ws))

Prompts == {Join(ws) : ws \in UNION {[1..n -> Vocabulary] : n \in 0..MaxWords}}

\* the prompts given to search
SearchPrompts == {
    "", "  ", "chicken", "Vegan", "vegan lunch", "high protein lunch",
    "High Protein Breakfast", "30g protein", "grilled chicken salad",
    "bulking under 300 cal", "low carb under 700 calories", "low fat dinner",
    "tofu", "gluten free", "keto chicken wrap" }

\* longer prompts, given to _parse_prompt and _score_item alone
LongPrompts == {
    "vegan gluten free tofu stir fry dinner low calorie low fat",
    "high protein chicken lunch under 600 calories",
    "no gluten free salad with 25 grams of protein",
    "bulking high protein under 300 cal 30g protein" }

\* ch repeated n times
RECURSIVE Repeat(_, _)
Repeat(ch, n) ==
    IF n = 0 THEN ""
    ELSE LET half == Repeat(ch, n \div 2)
         IN  half \o half \o (IF n % 2 = 1 THEN ch ELSE "")

\* prompts that name two meal periods
PeriodPrompts == { "dinner or lunch", "Lunch, not breakfast", "brunch and dinner" }

\* a prompt whose number is one digit longer than int() accepts
OverlongPrompts == { "under " \o Repeat("1", int_max_str_digits + 1) \o " cal" }

AllPrompts ==
    Prompts \cup SearchPrompts \cup LongPrompts \cup PeriodPrompts \cup OverlongPrompts

\* parsed = self._parse_prompt(prompt), evaluated once for each prompt
ParsedQueries == [p \in AllPrompts |-> _parse_prompt(p)]

\* self._score_item(item, parsed), evaluated once for each item and prompt
Scores == [it \in ItemPool, p \in SearchPrompts |-> _score_item(it, ParsedQueries[p])]

-----------------------------------------------------------------------------
(* matcher.py: MenuMatcher.search *)

FetchRows_AnyPeriod(rows, locs, date, parsed) ==
    SelectSeq(Joined(rows, locs), LAMBDA j : date # Null /\ j.row.date = date)

\* (a row query that asks for the latest date anew)
FetchRows_LatestDate(rows, locs, date, parsed) ==
    SelectSeq(Joined(rows, locs), LAMBDA j :
        /\ j.row.date = MaxDate(rows)
        /\ (Truthy(parsed.period) => j.row.period = parsed.period))

\* (a fetch that also requires every nutrition threshold of the query)
FetchRows_AllThresholds(rows, locs, date, parsed) ==
    SelectSeq(Joined(rows, locs), LAMBDA j :
        /\ date # Null
        /\ j.row.date = date
        /\ (Truthy(parsed.period) => j.row.period = parsed.period)
        /\ \A i \in 1..Len(parsed.nutrition_filters) :
              LET f == parsed.nutrition_filters[i] IN
              /\ j.row[f.nutrient] # Null
              /\ f.op = ">=" => j.row[f.nutrient] >= f.target
              /\ f.op = "<=" => j.row[f.nutrient] <= f.target)

\* WHERE mi.date = ? [AND mi.period = ?]; a NULL date equals nothing
FetchRows(rows, locs, date, parsed) ==
    SelectSeq(Joined(rows, locs), LAMBDA j :
        /\ date # Null
        /\ j.row.date = date
        /\ (Truthy(parsed.period) => j.row.period = parsed.period))

MatchResult(j, scored) ==
    [ name |-> j.row.name, location |-> j.location_name,
      period |-> j.row.period, category |-> j.row.category,
      calories |-> j.row.calories, protein |-> j.row.protein,
      carbs |-> j.row.carbs, fat |-> j.row.fat,
      dietary_tags |-> IF j.row.dietary_tags # "" THEN Split(j.row.dietary_tags)
                       ELSE <<>>,
      score |-> scored.score, match_reasons |-> scored.reasons ]

RECURSIVE ScoreRows_KeepZero(_, _)
ScoreRows_KeepZero(fetched, prompt) ==
    IF Len(fetched) = 0 THEN <<>>
    ELSE <<MatchResult(Head(fetched), Scores[Head(fetched).row, prompt])>>
            \o ScoreRows_KeepZero(Tail(fetched), prompt)

\* for row in rows: ... if score > 0: results.append(...)
RECURSIVE ScoreRows(_, _)
ScoreRows(fetched, prompt) ==
    IF Len(fetched) = 0 THEN <<>>
    ELSE LET scored == Scores[Head(fetched).row, prompt] IN
         (IF scored.score > 0 THEN <<MatchResult(Head(fetched), scored)>> ELSE <<>>)
            \o ScoreRows(Tail(fetched), prompt)

InsertByScore_Unstable(sorted, x) ==
    LET k == Cardinality({i \in 1..Len(sorted) : sorted[i].score > x.score})
    IN  SubSeq(sorted, 1, k) \o <<x>> \o SubSeq(sorted, k + 1, Len(sorted))

\* list.sort(key=score, reverse=True): stable, equal scores keep their order
InsertByScore(sorted, x) ==
    LET k == Cardinality({i \in 1..Len(sorted) : sorted[i].score >= x.score})
    IN  SubSeq(sorted, 1, k) \o <<x>> \o SubSeq(sorted, k + 1, Len(sorted))

RECURSIVE SortByScore(_, _)
SortByScore(sorted, rest) ==
    IF Len(rest) = 0 THEN sorted
    ELSE SortByScore(InsertByScore(sorted, Head(rest)), Tail(rest))

\* (a search that reports a date without rows as an error)
search_NoDataIsError(rows, locs, prompt, limit, date) ==
    LET parsed   == ParsedQueries[prompt]
        resolved == IF date = Null THEN MaxDate(rows) ELSE date
        fetched  == FetchRows(rows, locs, resolved, parsed)
        results  == SortByScore(<<>>, ScoreRows(fetched, prompt))
    IN  IF Raised(parsed) THEN parsed
        ELSE IF \A i \in 1..Len(rows) : rows[i].date # resolved
             THEN [raised |-> "LookupError"]
        ELSE [ date |-> resolved, rows |-> fetched, results |-> Slice(results, limit) ]

search(rows, locs, prompt, limit, date) ==
    LET parsed   == ParsedQueries[prompt]
        resolved == IF date = Null THEN MaxDate(rows) ELSE date
        fetched  == FetchRows(rows, locs, resolved, parsed)
        results  == SortByScore(<<>>, ScoreRows(fetched, prompt))
    IN  IF Raised(parsed) THEN parsed
        ELSE [ date |-> resolved, rows |-> fetched, results |-> Slice(results, limit) ]

-----------------------------------------------------------------------------
(* tools.py: dining hours *)

\* None as the hours of a day: a closed day (no location has an empty table)
NoHours == <<>>

\* location -> day type -> <<period, <<open, close>>>>, ...
DINING_HOURS == <<
    [ name |-> "NYU EATS at Downstein", all_hours |->
        [ weekday |-> << <<"Breakfast", <<"7:00 AM", "10:30 AM">>>>, <<"Lunch", <<"11:00 AM", "3:00 PM">>>>, <<"Dinner", <<"4:00 PM", "9:00 PM">>>> >>,
          friday |-> << <<"Breakfast", <<"7:00 AM", "10:30 AM">>>>, <<"Lunch", <<"11:00 AM", "3:00 PM">>>>, <<"Dinner", <<"4:00 PM", "9:00 PM">>>> >>,
          saturday |-> << <<"Brunch", <<"9:00 AM", "3:00 PM">>>>, <<"Dinner", <<"4:00 PM", "9:00 PM">>>> >>,
          sunday |-> << <<"Brunch", <<"9:00 AM", "3:00 PM">>>>, <<"Dinner", <<"4:00 PM", "9:00 PM">>>> >> ] ],
    [ name |-> "NYU EATS at Third North", all_hours |->
        [ weekday |-> << <<"Breakfast", <<"7:30 AM", "10:30 AM">>>>, <<"Lunch", <<"11:00 AM", "3:00 PM">>>>, <<"Dinner", <<"4:00 PM", "9:00 PM">>>> >>,
          friday |-> << <<"Breakfast", <<"7:30 AM", "10:30 AM">>>>, <<"Lunch", <<"11:00 AM", "3:00 PM">>>>, <<"Dinner", <<"4:00 PM", "9:00 PM">>>> >>,
          saturday |-> << <<"Brunch", <<"10:00 AM", "3:00 PM">>>>, <<"Dinner", <<"4:00 PM", "9:00 PM">>>> >>,
          sunday |-> << <<"Brunch", <<"10:00 AM", "3:00 PM">>>>, <<"Dinner", <<"4:00 PM", "9:00 PM">>>> >> ] ],
    [ name |-> "NYU EATS at Lipton", all_hours |->
        [ weekday |-> << <<"Breakfast", <<"7:30 AM", "10:30 AM">>>>, <<"Lunch", <<"11:00 AM", "3:00 PM">>>>, <<"Dinner", <<"4:00 PM", "9:00 PM">>>> >>,
          friday |-> << <<"Breakfast", <<"7:30 AM", "10:30 AM">>>>, <<"Lunch", <<"11:00 AM", "3:00 PM">>>>, <<"Dinner", <<"4:00 PM", "9:00 PM">>>> >>,
          saturday |-> << <<"Brunch", <<"11:00 AM", "3:00 PM">>>>, <<"Dinner", <<"4:00 PM", "8:00 PM">>>> >>,
          sunday |-> << <<"Brunch", <<"11:00 AM", "3:00 PM">>>>, <<"Dinner", <<"4:00 PM", "8:00 PM">>>> >> ] ],
    [ name |-> "The Marketplace at Kimmel", all_hours |->
        [ weekday |-> << <<"Breakfast", <<"7:30 AM", "10:30 AM">>>>, <<"Lunch", <<"11:00 AM", "3:00 PM">>>>, <<"Dinner", <<"4:00 PM", "8:00 PM">>>> >>,
          friday |-> << <<"Breakfast", <<"7:30 AM", "10:30 AM">>>>, <<"Lunch", <<"11:00 AM", "3:00 PM">>>>, <<"Dinner", <<"4:00 PM", "8:00 PM">>>> >>,
          saturday |-> NoHours,
          sunday |-> NoHours ] ],
    [ name |-> "Palladium", all_hours |->
        [ weekday |-> << <<"Dinner", <<"4:00 PM", "10:00 PM">>>> >>,
          friday |-> << <<"Dinner", <<"4:00 PM", "10:00 PM">>>> >>,
          saturday |-> << <<"Dinner", <<"4:00 PM", "10:00 PM">>>> >>,
          sunday |-> << <<"Brunch", <<"11:00 AM", "3:00 PM">>>>, <<"Dinner", <<"5:00 PM", "10:00 PM">>>> >> ] ],
    [ name |-> "Crave NYU", all_hours |->
        [ weekday |-> << <<"All Day", <<"10:30 AM", "8:30 PM">>>> >>,
          friday |-> << <<"All Day", <<"10:30 AM", "8:30 PM">>>> >>,
          saturday |-> << <<"All Day", <<"10:30 AM", "8:30 PM">>>> >>,
          sunday |-> << <<"All Day", <<"10:30 AM", "8:30 PM">>>> >> ] ],
    [ name |-> "Upstein", all_hours |->
        [ weekday |-> << <<"All Day", <<"10:30 AM", "10:00 PM">>>> >>,
          friday |-> << <<"All Day", <<"10:30 AM", "8:00 PM">>>> >>,
          saturday |-> NoHours,
          sunday |-> NoHours ] ],
    [ name |-> "Kosher Eatery", all_hours |->
        [ weekday |-> << <<"All Day", <<"11:30 AM", "7:30 PM">>>> >>,
          friday |-> << <<"All Day", <<"11:30 AM", "2:00 PM">>>> >>,
          saturday |-> NoHours,
          sunday |-> << <<"All Day", <<"12:30 PM", "7:30 PM">>>> >> ] ],
    [ name |-> "Jasper Kane Cafe", all_hours |->
        [ weekday |-> << <<"Breakfast", <<"7:30 AM", "10:30 AM">>>>, <<"Lunch", <<"11:00 AM", "3:00 PM">>>> >>,
          friday |-> << <<"Breakfast", <<"7:30 AM", "10:30 AM">>>>, <<"Lunch", <<"11:00 AM", "3:00 PM">>>> >>,
          saturday |-> NoHours,
          sunday |-> NoHours ] ],
    [ name |-> "Starbucks", all_hours |->
        [ weekday |-> << <<"All Day", <<"7:00 AM", "9:00 PM">>>> >>,
          friday |-> << <<"All Day", <<"7:00 AM", "9:00 PM">>>> >>,
          saturday |-> << <<"All Day", <<"8:00 AM", "8:00 PM">>>> >>,
          sunday |-> << <<"All Day", <<"8:00 AM", "8:00 PM">>>> >> ] ],
    [ name |-> "Dunkin'", all_hours |->
        [ weekday |-> << <<"All Day", <<"7:00 AM", "8:00 PM">>>> >>,
          friday |-> << <<"All Day", <<"7:00 AM", "8:00 PM">>>> >>,
          saturday |-> << <<"All Day", <<"8:00 AM", "6:00 PM">>>> >>,
          sunday |-> << <<"All Day", <<"8:00 AM", "6:00 PM">>>> >> ] ],
    [ name |-> "U-Hall Commons Cafe", all_hours |->
        [ weekday |-> << <<"Dinner", <<"5:00 PM", "11:00 PM">>>> >>,
          friday |-> << <<"Dinner", <<"5:00 PM", "11:00 PM">>>> >>,
          saturday |-> NoHours,
          sunday |-> NoHours ] ],
    [ name |-> "Peet's Coffee", all_hours |->
        [ weekday |-> << <<"All Day", <<"7:45 AM", "5:00 PM">>>> >>,
          friday |-> << <<"All Day", <<"7:45 AM", "2:00 PM">>>> >>,
          saturday |-> NoHours,
          sunday |-> NoHours ] ],
    [ name |-> "Flavor Lab by NYU Eats", all_hours |->
        [ weekday |-> << <<"All Day", <<"11:00 AM", "8:00 PM">>>> >>,
          friday |-> << <<"All Day", <<"11:00 AM", "8:00 PM">>>> >>,
          saturday |-> << <<"All Day", <<"11:00 AM", "8:00 PM">>>> >>,
          sunday |-> << <<"All Day", <<"11:00 AM", "8:00 PM">>>> >> ] ]
>>

DayTypes == {"weekday", "friday", "saturday", "sunday"}

day_names == <<"Monday", "Tuesday", "Wednesday", "Thursday", "Friday", "Saturday", "Sunday">>

\* datetime.now().weekday(): 0 = Monday ... 6 = Sunday
_get_day_type(day) ==
    IF day < 4 THEN "weekday"
    ELSE IF day = 4 THEN "friday"
    ELSE IF day = 5 THEN "saturday"
    ELSE "sunday"

\* two successive readings of datetime.now(): weekday and strftime("%I:%M %p");
\* midnight may pass between them
Clock(day, time) == [weekday |-> day, time |-> time]
ClockReads ==
    {<<Clock(d, "12:30 PM"), Clock(d, "12:30 PM")>> : d \in 0..6}
        \cup {<<Clock(d, "11:59 PM"), Clock((d + 1) % 7, "12:00 AM")>> : d \in {4, 6}}

HoursResult(location, now, hours, status, note) ==
    [ location |-> location, today |-> day_names[now.weekday + 1],
      current_time |-> now.time, hours |-> hours, status |-> status, note |-> note ]

\* (a lookup that reports every listed location as open)
get_location_hours_NoClosedBranch(location, now, later) ==
    LET day_type == _get_day_type(later.weekday)
        location_lower == Lower(location)
        found == {k \in 1..Len(DINING_HOURS) :
                    Contains(Lower(DINING_HOURS[k].name), location_lower)}
    IN  IF found = {}
        THEN HoursResult(location, now, NoHours, "Unknown",
                         "Hours not available for this location.")
        ELSE LET loc_name == DINING_HOURS[Leftmost(found)].name
                 today_hours == DINING_HOURS[Leftmost(found)].all_hours[day_type]
             IN  HoursResult(loc_name, now, today_hours, "Open today",
                        "Hours may vary on holidays. Check NYU Eats for updates.")

\* now = datetime.now(), then day_type = _get_day_type(), which reads the
\* clock again; the first table entry whose name contains the string is taken
get_location_hours(location, now, later) ==
    LET day_type == _get_day_type(later.weekday)
        location_lower == Lower(location)
        found == {k \in 1..Len(DINING_HOURS) :
                    Contains(Lower(DINING_HOURS[k].name), location_lower)}
    IN  IF found = {}
        THEN HoursResult(location, now, NoHours, "Unknown",
                         "Hours not available for this location.")
        ELSE LET loc_name == DINING_HOURS[Leftmost(found)].name
                 today_hours == DINING_HOURS[Leftmost(found)].all_hours[day_type]
             IN  IF today_hours = NoHours
                 THEN HoursResult(loc_name, now, NoHours, "CLOSED today",
                        loc_name \o " is closed on " \o day_names[now.weekday + 1] \o "s.")
                 ELSE HoursResult(loc_name, now, today_hours, "Open today",
                        "Hours may vary on holidays. Check NYU Eats for updates.")

\* the location strings asked about
HoursLocations == {"Upstein", "third north", "", "Chick-fil-A"}

\* get_location_hours(location), evaluated once for each string and clock
HoursTable ==
    [location \in HoursLocations, reads \in ClockReads |->
        get_location_hours(location, reads[1], reads[2])]

-----------------------------------------------------------------------------
(* tools.py: item classification *)

COMPONENT_CATEGORIES == {
    "fresh 52 salad bar", "salad bar", "salad bar toppings",
    "salad bar dressings", "salad bar protein", "salad bar greens",
    "salad bar fruit and yogurt", "global fruit & yogurt", "deli",
    "deli sauce", "deli veg", "deli cheese", "create deli", "ny deli",
    "taqueria toppings", "taqueria base", "taqueria protein", "innovate",
    "grill / flame", "grill", "create", "pom and honey choose your side",
    "pom and honey choose your protein", "pom and honey grain and salad",
    "pom and honey sauce", "street eats choose your side",
    "street eats choose your protein", "paper lantern sides",
    "paper lantern starch", "paper lantern protein", "culture corner starch",
    "culture corner side", "root and seeds", "plant based", "plant'd" }

ENTREE_CATEGORIES == {
    "true burger", "burger 212", "burger 212 grill", "crave nyu",
    "cluckstein", "500 degrees pizza", "al forno pizza", "personal pizza",
    "pizza station", "pizza/alforno", "quesadilla/burrito/slider",
    "taqueria/tots/mac&cheese", "homestyle", "cucina entree", "cucina pasta",
    "halal station", "halal", "composed salad / sandwiches",
    "fresh 52 composed salads", "root and seeds composed",
    "breakfast sandwiches", "kimmel lunch", "kimmel dinner", "fresh 140",
    "fresh 140 sandwich", "vedgecraft", "waffle stein", "guacamole toast",
    "soup of the day", "the soup bowl", "soup bowl", "soup", "spoonfuls",
    "culture corner entree", "paper lantern protein" }

ComponentHints == {"choose your", "bar", "toppings", "sides", "sauce"}

_classify_item_type_EntreeFirst(category) ==
    LET cat_lower == IF Truthy(category) THEN Lower(category) ELSE "" IN
    IF cat_lower \in ENTREE_CATEGORIES THEN "entree"
    ELSE IF cat_lower \in COMPONENT_CATEGORIES THEN "component"
    ELSE IF \E x \in ComponentHints : Contains(cat_lower, x) THEN "component"
    ELSE "other"

_classify_item_type(category) ==
    LET cat_lower == IF Truthy(category) THEN Lower(category) ELSE "" IN
    IF cat_lower \in COMPONENT_CATEGORIES THEN "component"
    ELSE IF cat_lower \in ENTREE_CATEGORIES THEN "entree"
    ELSE IF \E x \in ComponentHints : Contains(cat_lower, x) THEN "component"
    ELSE "other"

\* the categories given to the classifier
Categories == {None, "", "Salad Bar Toppings", "True Burger", "TRUE BURGER",
               "Random Station XYZ", "Omelet Bar", "Burger Sides",
               "Soup", "Soup Bar", "Choose Your Pasta", "Hot Sauces", "Desserts"}
                  \cup {it.category : it \in ItemPool}
                  \cup COMPONENT_CATEGORIES \cup ENTREE_CATEGORIES

\* _classify_item_type(row["category"]), evaluated once for each category
ItemTypes ==
    [c \in {it.category : it \in ItemPool \cup StationPool} |-> _classify_item_type(c)]

-----------------------------------------------------------------------------
(* tools.py: search_menu *)

\* x LIKE '%pat%' (LIKE ignores ASCII case; LOWER on both sides besides)
Like(x, pat) == Contains(Lower(x), Lower(pat))

\* stable insertion of a joined row into a list ordered by a column
InsertByColumn(sorted, x, column, desc) ==
    LET before(y) == IF desc THEN y.row[column] >= x.row[column]
                     ELSE y.row[column] <= x.row[column]
        k == Cardinality({i \in 1..Len(sorted) : before(sorted[i])})
    IN  SubSeq(sorted, 1, k) \o <<x>> \o SubSeq(sorted, k + 1, Len(sorted))

\* ORDER BY column [DESC]; NULL (= Null, below every value) sorts lowest, rows
\* with equal keys stay in rowid order
RECURSIVE OrderBy(_, _, _, _)
OrderBy(sorted, rest, column, desc) ==
    IF Len(rest) = 0 THEN sorted
    ELSE OrderBy(InsertByColumn(sorted, Head(rest), column, desc), Tail(rest),
                 column, desc)

\* LIMIT n: a negative n is no limit
SqlLimit(rows, n) ==
    IF n < 0 \/ n >= Len(rows) THEN rows ELSE SubSeq(rows, 1, n)

\* the WHERE clause built by search_menu, for one joined row
MenuWhere(j, date, a) ==
    /\ date # Null /\ j.row.date = date
    /\ Truthy(a.period) =>
          IF Lower(a.period) = "dinner"
          THEN Lower(j.row.period) \in {"dinner", "supper"}
          ELSE Lower(j.row.period) = Lower(a.period)
    /\ Truthy(a.location) => Like(j.location_name, a.location)
    /\ Len(a.keywords) > 0 =>
          \E k \in 1..Len(a.keywords) : Like(j.row.name, a.keywords[k])
    /\ Len(a.dietary_tags) > 0 =>
          \A k \in 1..Len(a.dietary_tags) : Like(j.row.dietary_tags, a.dietary_tags[k])
    /\ a.min_protein # Null => j.row.protein # Null /\ j.row.protein >= a.min_protein
    /\ a.max_calories # Null => j.row.calories # Null /\ j.row.calories <= a.max_calories
    /\ a.min_calories # Null => j.row.calories # Null /\ j.row.calories >= a.min_calories
    /\ a.max_sodium # Null => j.row.sodium # Null /\ j.row.sodium <= a.max_sodium
    /\ a.min_fiber # Null => j.row.fiber # Null /\ j.row.fiber >= a.min_fiber
    /\ a.max_sugar # Null => j.row.sugar # Null /\ j.row.sugar <= a.max_sugar

MenuResult(j) ==
    [ name |-> j.row.name, location |-> j.location_name, period |-> j.row.period,
      category |-> j.row.category, item_type |-> ItemTypes[j.row.category],
      calories |-> j.row.calories, protein |-> j.row.protein,
      carbs |-> j.row.carbs, fat |-> j.row.fat, fiber |-> j.row.fiber,
      sugar |-> j.row.sugar, sodium |-> j.row.sodium,
      dietary_tags |-> IF j.row.dietary_tags # "" THEN Split(j.row.dietary_tags)
                       ELSE <<>> ]

\* for row in rows: skip a (name, location, period) already seen
RECURSIVE Dedupe(_, _)
Dedupe(fetched, seen) ==
    IF Len(fetched) = 0 THEN <<>>
    ELSE LET j == Head(fetched)
             key == <<j.row.name, j.location_name, j.row.period>>
         IN  IF key \in seen THEN Dedupe(Tail(fetched), seen)
             ELSE <<MenuResult(j)>> \o Dedupe(Tail(fetched), seen \cup {key})

\* (a search_menu that resumes after the rows its last call returned)
search_menu_Paging(rows, locs, a) ==
    LET date    == MaxDate(rows)
        matched == SelectSeq(Joined(rows, locs), LAMBDA j : MenuWhere(j, date, a))
        ordered == IF a.min_protein # Null /\ a.min_protein # 0
                   THEN OrderBy(<<>>, matched, "protein", TRUE)
                   ELSE OrderBy(<<>>, matched, "calories", FALSE)
        offset  == IF call.op = "search_menu" /\ call.args = a THEN Len(call.out) ELSE 0
    IN  Dedupe(SqlLimit(SubSeq(ordered, offset + 1, Len(ordered)), a.limit), {})

search_menu(rows, locs, a) ==
    LET date    == MaxDate(rows)
        matched == SelectSeq(Joined(rows, locs), LAMBDA j : MenuWhere(j, date, a))
        ordered == IF a.min_protein # Null /\ a.min_protein # 0
                   THEN OrderBy(<<>>, matched, "protein", TRUE)
                   ELSE OrderBy(<<>>, matched, "calories", FALSE)
    IN  Dedupe(SqlLimit(ordered, a.limit), {})

\* the arguments of search_menu, all defaulted
MenuArgs ==
    [ keywords |-> <<>>, period |-> None, location |-> None, dietary_tags |-> <<>>,
      min_protein |-> Null, max_calories |-> Null, min_calories |-> Null,
      max_sodium |-> Null, min_fiber |-> Null, max_sugar |-> Null, limit |-> 20 ]

\* the calls of search_menu
MenuCalls ==
    {[MenuArgs EXCEPT !.limit = n] : n \in 0..MaxLimit}
        \cup { MenuArgs,
               [MenuArgs EXCEPT !.min_protein = 20, !.period = "Lunch", !.limit = 5],
               [MenuArgs EXCEPT !.keywords = <<"chicken", "tofu">>],
               [MenuArgs EXCEPT !.location = "downstein", !.dietary_tags = <<"Vegan">>],
               [MenuArgs EXCEPT !.period = "Brunch"],
               [MenuArgs EXCEPT !.max_calories = 50, !.min_fiber = 1] }

-----------------------------------------------------------------------------
(* tools.py: get_complete_meals *)

IsCompleteMeal_AnyType(item, min_calories) ==
    /\ item.calories # Null /\ item.calories # 0
    /\ item.calories >= min_calories

\* item.get("item_type") == "entree" and item.get("calories")
\*     and item["calories"] >= min_calories
IsCompleteMeal(item, min_calories) ==
    /\ item.item_type = "entree"
    /\ item.calories # Null /\ item.calories # 0
    /\ item.calories >= min_calories

get_complete_meals(rows, locs, a) ==
    LET all_items == search_menu(rows, locs,
                        [MenuArgs EXCEPT !.location = a.location,
                                         !.period = a.period,
                                         !.dietary_tags = a.dietary_tags,
                                         !.min_protein = a.min_protein,
                                         !.max_calories = a.max_calories,
                                         !.min_calories = a.min_calories,
                                         !.max_sodium = a.max_sodium,
                                         !.min_fiber = a.min_fiber,
                                         !.max_sugar = a.max_sugar,
                                         !.limit = a.limit * 3])
        entrees == SelectSeq(all_items, LAMBDA item : IsCompleteMeal(item, a.min_calories))
    IN  Slice(entrees, a.limit)

\* the optional filters of a get_complete_meals call that are given
GivenFilters(a) ==
    {f \in {"location", "period"} : a[f] # None}
        \cup {f \in {"dietary_tags"} : a[f] # <<>>}
        \cup {f \in {"min_protein", "max_calories", "max_sodium", "min_fiber",
                     "max_sugar"} : a[f] # Null}

\* the calls of get_complete_meals: at most MaxFilters optional filters each
MealArgs ==
    {a \in [ location : {None, "third north"},
             period : {None, "Lunch", "dinner", "Supper"},
             dietary_tags : {<<>>, <<"vegan">>},
             min_protein : {Null, 0, 20},
             max_calories : {Null, 500},
             min_calories : {0, 250, 300},
             max_sodium : {Null, 900},
             min_fiber : {Null, 3},
             max_sugar : {Null, 6},
             limit : 0..MaxLimit ] : Cardinality(GivenFilters(a)) <= MaxFilters}

-----------------------------------------------------------------------------
(* tools.py: get_build_your_own_options *)

protein_keywords == {"chicken", "beef", "turkey", "tuna", "salmon", "tofu", "egg",
                     "ham", "bacon", "sausage"}
base_keywords == {"rice", "quinoa", "bread", "tortilla", "pasta", "noodle",
                  "lettuce", "greens", "wrap", "bun", "roll"}
sauce_keywords == {"sauce", "dressing", "mayo", "mustard", "vinegar", "oil", "guac",
                   "salsa", "hummus"}

\* (a grouping by the keyword lists alone)
ComponentRole_KeywordsOnly(item) ==
    LET name_lower == Lower(item.name)
        cat_lower  == Lower(item.category)
    IN  IF \E kw \in protein_keywords : Contains(name_lower, kw) THEN "proteins"
        ELSE IF \E kw \in base_keywords : Contains(name_lower, kw) THEN "bases"
        ELSE IF \E kw \in sauce_keywords :
                    Contains(name_lower, kw) \/ Contains(cat_lower, kw) THEN "sauces"
        ELSE "toppings"

\* the list one component is appended to: if ... or item.get("protein", 0)
\* and item["protein"] >= 8: ... elif ...: elif ...: else: toppings
ComponentRole(item) ==
    LET name_lower == Lower(item.name)
        cat_lower  == Lower(item.category)
    IN  IF \/ \E kw \in protein_keywords : Contains(name_lower, kw)
           \/ item.protein # Null /\ item.protein # 0 /\ item.protein >= 8
        THEN "proteins"
        ELSE IF \E kw \in base_keywords : Contains(name_lower, kw) THEN "bases"
        ELSE IF \E kw \in sauce_keywords :
                    Contains(name_lower, kw) \/ Contains(cat_lower, kw) THEN "sauces"
        ELSE "toppings"

get_build_your_own_options(rows, locs, a) ==
    LET all_items  == search_menu(rows, locs,
                         [MenuArgs EXCEPT !.location = a.location,
                                          !.period = a.period,
                                          !.dietary_tags = a.dietary_tags,
                                          !.limit = 100])
        components == SelectSeq(all_items, LAMBDA item : item.item_type = "component")
        listed(role) == SelectSeq(components, LAMBDA item : ComponentRole(item) = role)
    IN  [ location |-> a.location,
          proteins |-> Slice(listed("proteins"), a.limit),
          bases    |-> Slice(listed("bases"), a.limit),
          toppings |-> Slice(listed("toppings"), a.limit),
          sauces   |-> Slice(listed("sauces"), a.limit),
          build_suggestion |-> "At " \o a.location
              \o ", you can build your own meal by choosing a base, protein, toppings, and sauce." ]

\* the calls of get_build_your_own_options
BuildArgs ==
    [ location : {"third north", "NYU EATS", "Downstein"},
      station_type : {None},
      period : {None, "Lunch"},
      dietary_tags : {<<>>},
      limit : 0..MaxLimit ]

-----------------------------------------------------------------------------
(* tools.py: list_locations, get_current_time and the tools over search_menu *)

\* ORDER BY name compares the names byte by byte; the characters of the
\* names, in byte order
AsciiOrder == " !\"#$%&'()*+,-./0123456789:;<=>?@ABCDEFGHIJKLMNOPQRSTUVWXYZ[\\]^_abcdefghijklmnopqrstuvwxyz{|}~"
Ord(ch) == CHOOSE i \in 1..Len(AsciiOrder) : SubSeq(AsciiOrder, i, i) = ch

Before(s, t) ==
    \E i \in 1..Len(t) :
        /\ i <= Len(s) + 1
        /\ SubSeq(s, 1, i - 1) = SubSeq(t, 1, i - 1)
        /\ i = Len(s) + 1 \/ Ord(CharAt(s, i)) < Ord(CharAt(t, i))

RECURSIVE OrderByName(_)
OrderByName(locs) ==
    IF locs = {} THEN <<>>
    ELSE LET first == CHOOSE l \in locs : \A o \in locs : ~Before(o.name, l.name)
         IN  <<first.name>> \o OrderByName(locs \ {first})

\* SELECT name FROM locations ORDER BY name
list_locations(locs) == OrderByName(locs)

get_location_items(rows, locs, a) ==
    search_menu(rows, locs, [MenuArgs EXCEPT !.location = a.location,
                                             !.period = a.period,
                                             !.limit = a.limit])

get_high_protein_items(rows, locs, a) ==
    search_menu(rows, locs, [MenuArgs EXCEPT !.min_protein = a.min_protein,
                                             !.location = a.location,
                                             !.period = a.period,
                                             !.limit = a.limit])

get_low_calorie_items(rows, locs, a) ==
    search_menu(rows, locs, [MenuArgs EXCEPT !.max_calories = a.max_calories,
                                             !.location = a.location,
                                             !.period = a.period,
                                             !.dietary_tags = a.dietary_tags,
                                             !.limit = a.limit])

\* now.strftime("%B %d, %Y") on the days of one week, Monday first
ClockDate == << "November 02, 2026", "November 03, 2026", "November 04, 2026",
                "November 05, 2026", "November 06, 2026", "November 07, 2026",
                "November 08, 2026" >>

\* now = datetime.now(); "day_type": _get_day_type() reads the clock again
get_current_time(now, later) ==
    [ current_time |-> now.time,
      day_of_week  |-> day_names[now.weekday + 1],
      date         |-> ClockDate[now.weekday + 1],
      is_weekend   |-> now.weekday >= 5,
      day_type     |-> _get_day_type(later.weekday),
      hint |-> "Use this to recommend currently open locations and appropriate meal periods." ]

TOOL_FUNCTIONS == { "search_menu", "get_location_items", "list_locations",
                    "get_complete_meals", "get_build_your_own_options",
                    "get_high_protein_items", "get_low_calorie_items",
                    "get_location_hours", "get_current_time" }

-----------------------------------------------------------------------------
(* matcher.py: get_locations, get_stats *)

\* SELECT name FROM locations ORDER BY name
get_locations(locs) == OrderByName(locs)

\* by_location is a dict {l.name: COUNT(*)}, a mapping whatever the order the
\* groups are fetched in
get_stats(rows, locs, given) ==
    LET date   == IF given = Null THEN MaxDate(rows) ELSE given
        dated  == SelectSeq(rows, LAMBDA r : r.date = date)
        joined == Joined(dated, locs)
        names  == {joined[i].location_name : i \in 1..Len(joined)}
        count(n) == Cardinality({i \in 1..Len(joined) : joined[i].location_name = n})
    IN  [ date |-> date, total_items |-> Len(dated),
          by_location |-> [n \in names |-> count(n)] ]

-----------------------------------------------------------------------------
(* Calling a tool with the arguments of a decoded JSON object *)

\* the values of a decoded JSON object, each with its Python type
StrValue(s)  == [str |-> s]
IntValue(n)  == [int |-> n]
ListValue(l) == [list |-> l]
NoneValue    == [none |-> TRUE]
IsStr(v)  == "str" \in DOMAIN v
IsInt(v)  == "int" \in DOMAIN v
IsList(v) == "list" \in DOMAIN v
IsNone(v) == "none" \in DOMAIN v

\* if v:
TruthyValue(v) ==
    IF IsStr(v) THEN v.str # ""
    ELSE IF IsInt(v) THEN v.int # 0
    ELSE IF IsList(v) THEN v.list # <<>>
    ELSE FALSE

\* type(v).__name__
TypeName(v) ==
    IF IsStr(v) THEN "str" ELSE IF IsInt(v) THEN "int"
    ELSE IF IsList(v) THEN "list" ELSE "NoneType"

\* str(v), for the strings and integers f-strings format
StrOf(v) == IF IsStr(v) THEN v.str ELSE IF IsInt(v) THEN ToString(v.int) ELSE "None"

\* the exceptions the tools raise
Exception(type, message) == [raised |-> type, message |-> message]
Value(result) == [value |-> result]

\* the signatures: the defaults of the optional parameters, the required ones
Defaults(tool) ==
    CASE tool = "search_menu" ->
            [ keywords |-> NoneValue, period |-> NoneValue, location |-> NoneValue,
              dietary_tags |-> NoneValue, min_protein |-> NoneValue,
              max_calories |-> NoneValue, min_calories |-> NoneValue,
              max_sodium |-> NoneValue, min_fiber |-> NoneValue,
              max_sugar |-> NoneValue, limit |-> IntValue(20) ]
      [] tool = "get_location_items" ->
            [ period |-> NoneValue, limit |-> IntValue(40) ]
      [] tool = "get_complete_meals" ->
            [ location |-> NoneValue, period |-> NoneValue, dietary_tags |-> NoneValue,
              min_protein |-> NoneValue, max_calories |-> NoneValue,
              min_calories |-> IntValue(250), max_sodium |-> NoneValue,
              min_fiber |-> NoneValue, max_sugar |-> NoneValue, limit |-> IntValue(15) ]
      [] tool = "get_build_your_own_options" ->
            [ station_type |-> NoneValue, period |-> NoneValue,
              dietary_tags |-> NoneValue, limit |-> IntValue(10) ]
      [] tool = "get_high_protein_items" ->
            [ min_protein |-> IntValue(15), location |-> NoneValue,
              period |-> NoneValue, limit |-> IntValue(15) ]
      [] tool = "get_low_calorie_items" ->
            [ max_calories |-> IntValue(400), location |-> NoneValue,
              period |-> NoneValue, dietary_tags |-> NoneValue, limit |-> IntValue(15) ]
      [] tool \in {"list_locations", "get_location_hours", "get_current_time"} ->
            [ k \in {} |-> NoneValue ]

Required(tool) ==
    IF tool \in {"get_location_items", "get_build_your_own_options", "get_location_hours"}
    THEN {"location"} ELSE {}

Parameters(tool) == DOMAIN Defaults(tool) \cup Required(tool)

\* arguments: the (key, value) pairs of the dict, in its order
Keys(arguments) == {arguments[i][1] : i \in 1..Len(arguments)}
Item(arguments, k) == arguments[CHOOSE i \in 1..Len(arguments) : arguments[i][1] = k][2]

\* func called with the arguments: the parameters bound, or TypeError
Unexpected(tool, arguments) ==
    {i \in 1..Len(arguments) : arguments[i][1] \notin Parameters(tool)}

BindFault(tool, arguments) ==
    IF Unexpected(tool, arguments) # {}
    THEN << Exception("TypeError", tool \o "() got an unexpected keyword argument '"
                \o arguments[Leftmost(Unexpected(tool, arguments))][1] \o "'") >>
    ELSE IF \E k \in Required(tool) : k \notin Keys(arguments)
    THEN << Exception("TypeError", tool
                \o "() missing 1 required positional argument: 'location'") >>
    ELSE <<>>

Bind(tool, arguments) ==
    [ k \in Parameters(tool) |->
        IF k \in Keys(arguments) THEN Item(arguments, k) ELSE Defaults(tool)[k] ]

\* the exceptions of search_menu called with b, in the order the function meets them;
\* tables: whether the database file holds the tables
SearchFaults(b, tables) ==
    (IF ~tables
     THEN << Exception("OperationalError", "no such table: menu_items") >> ELSE <<>>)
    \o (IF TruthyValue(b.period) /\ ~IsStr(b.period)
        THEN << Exception("AttributeError", "'" \o TypeName(b.period)
                    \o "' object has no attribute 'lower'") >> ELSE <<>>)
    \o (IF TruthyValue(b.keywords) /\ IsInt(b.keywords)
        THEN << Exception("TypeError", "'int' object is not iterable") >> ELSE <<>>)
    \o (IF TruthyValue(b.dietary_tags) /\ IsInt(b.dietary_tags)
        THEN << Exception("TypeError", "'int' object is not iterable") >> ELSE <<>>)
    \o (IF ~IsInt(b.limit)
        THEN << Exception("OperationalError", "no such column: " \o StrOf(b.limit)) >>
        ELSE <<>>)

\* the arguments as the query uses them
Chars(s) == [i \in 1..Len(s) |-> SubSeq(s, i, i)]
PeriodOf(v) == IF IsStr(v) THEN v.str ELSE None
LocationOf(v) == IF TruthyValue(v) THEN StrOf(v) ELSE None
ListOf(v) == IF IsList(v) THEN v.list ELSE IF IsStr(v) THEN Chars(v.str) ELSE <<>>
NumberOf(v) == IF IsInt(v) THEN v.int ELSE Null

SearchArgs(b) ==
    [ keywords |-> ListOf(b.keywords), period |-> PeriodOf(b.period),
      location |-> LocationOf(b.location), dietary_tags |-> ListOf(b.dietary_tags),
      min_protein |-> NumberOf(b.min_protein), max_calories |-> NumberOf(b.max_calories),
      min_calories |-> NumberOf(b.min_calories), max_sodium |-> NumberOf(b.max_sodium),
      min_fiber |-> NumberOf(b.min_fiber), max_sugar |-> NumberOf(b.max_sugar),
      limit |-> NumberOf(b.limit) ]

\* the keyword arguments a tool hands on to search_menu
Forwarded(tool, b) ==
    [ k \in DOMAIN Defaults("search_menu") |->
        CASE tool = "get_complete_meals" /\ k = "limit" ->
                IF IsInt(b.limit) THEN IntValue(b.limit.int * 3)
                ELSE StrValue(StrOf(b.limit) \o StrOf(b.limit) \o StrOf(b.limit))
          [] tool = "get_build_your_own_options" /\ k = "limit" -> IntValue(100)
          [] OTHER -> IF k \in DOMAIN b THEN b[k] ELSE Defaults("search_menu")[k] ]

\* the exceptions of func called with the arguments with the parameters bound to b
ToolFaults(tool, b, tables) ==
    CASE tool = "list_locations" ->
            IF tables THEN <<>>
            ELSE << Exception("OperationalError", "no such table: locations") >>
      [] tool = "get_current_time" -> <<>>
      [] tool = "get_location_hours" ->
            IF IsStr(b.location) THEN <<>>
            ELSE << Exception("AttributeError", "'" \o TypeName(b.location)
                        \o "' object has no attribute 'lower'") >>
      [] tool = "get_complete_meals" ->
            (IF IsNone(b.limit)
             THEN << Exception("TypeError",
                        "unsupported operand type(s) for *: 'NoneType' and 'int'") >>
             ELSE <<>>)
            \o SearchFaults(Forwarded(tool, b), tables)
      [] tool = "get_build_your_own_options" ->
            SearchFaults(Forwarded(tool, b), tables)
            \o (IF IsStr(b.limit)
                THEN << Exception("TypeError",
                    "slice indices must be integers or None or have an __index__ method") >>
                ELSE <<>>)
      [] OTHER -> SearchFaults(Forwarded(tool, b), tables)

\* func called with the arguments: the value returned or the exception raised
CallTool(tool, arguments, rows, locs, tables, now, later) ==
    IF BindFault(tool, arguments) # <<>> THEN Head(BindFault(tool, arguments))
    ELSE LET b == Bind(tool, arguments)
             a == SearchArgs(Forwarded(tool, b))
         IN  IF ToolFaults(tool, b, tables) # <<>> THEN Head(ToolFaults(tool, b, tables))
             ELSE CASE tool = "search_menu" -> Value(search_menu(rows, locs, a))
               [] tool = "get_location_items" -> Value(get_location_items(rows, locs, a))
               [] tool = "list_locations" -> Value(list_locations(locs))
               [] tool = "get_complete_meals" ->
                    Value(get_complete_meals(rows, locs,
                              [a EXCEPT !.limit = NumberOf(b.limit)]))
               [] tool = "get_build_your_own_options" ->
                    Value(get_build_your_own_options(rows, locs,
                              [ location |-> StrOf(b.location), station_type |-> None,
                                period |-> a.period, dietary_tags |-> a.dietary_tags,
                                limit |-> NumberOf(b.limit) ]))
               [] tool = "get_high_protein_items" ->
                    Value(get_high_protein_items(rows, locs, a))
               [] tool = "get_low_calorie_items" ->
                    Value(get_low_calorie_items(rows, locs, a))
               [] tool = "get_location_hours" ->
                    Value(get_location_hours(b.location.str, now, later))
               [] tool = "get_current_time" -> Value(get_current_time(now, later))

-----------------------------------------------------------------------------
(* json.dumps *)

RECURSIVE Escape(_)
Escape(s) ==
    IF s = "" THEN ""
    ELSE (IF SubSeq(s, 1, 1) \in {"\"", "\\"} THEN "\\" ELSE "")
            \o SubSeq(s, 1, 1) \o Escape(SubSeq(s, 2, Len(s)))

json_string(s) == "\"" \o Escape(s) \o "\""

\* an INTEGER column, a REAL column (the whole numbers of the model), a bool
json_int(n)  == IF n = Null THEN "null" ELSE ToString(n)
json_real(n) == IF n = Null THEN "null" ELSE ToString(n) \o ".0"
json_bool(b) == IF b THEN "true" ELSE "false"

RECURSIVE JoinTexts(_)
JoinTexts(texts) ==
    IF Len(texts) = 0 THEN ""
    ELSE IF Len(texts) = 1 THEN texts[1]
    ELSE texts[1] \o ", " \o JoinTexts(Tail(texts))

json_array(texts) == "[" \o JoinTexts(texts) \o "]"
json_object(members) ==
    "{" \o JoinTexts([i \in 1..Len(members) |->
                         json_string(members[i][1]) \o ": " \o members[i][2]]) \o "}"
json_strings(seq) == json_array([i \in 1..Len(seq) |-> json_string(seq[i])])

\* one result of search_menu; the model's rows leave saturated_fat and
\* cholesterol NULL
json_item(item) ==
    json_object(<< <<"name", json_string(item.name)>>,
                   <<"location", json_string(item.location)>>,
                   <<"period", json_string(item.period)>>,
                   <<"category", json_string(item.category)>>,
                   <<"item_type", json_string(item.item_type)>>,
                   <<"calories", json_int(item.calories)>>,
                   <<"protein", json_real(item.protein)>>,
                   <<"carbs", json_real(item.carbs)>>,
                   <<"fat", json_real(item.fat)>>,
                   <<"fiber", json_real(item.fiber)>>,
                   <<"sugar", json_real(item.sugar)>>,
                   <<"sodium", json_real(item.sodium)>>,
                   <<"saturated_fat", "null">>,
                   <<"cholesterol", "null">>,
                   <<"dietary_tags", json_strings(item.dietary_tags)>> >>)

json_items(items) == json_array([i \in 1..Len(items) |-> json_item(items[i])])

json_build(r) ==
    json_object(<< <<"location", json_string(r.location)>>,
                   <<"proteins", json_items(r.proteins)>>,
                   <<"bases", json_items(r.bases)>>,
                   <<"toppings", json_items(r.toppings)>>,
                   <<"sauces", json_items(r.sauces)>>,
                   <<"build_suggestion", json_string(r.build_suggestion)>> >>)

\* a day's table {period: (open, close)}, None as null
json_table(hours) ==
    IF hours = NoHours THEN "null"
    ELSE json_object([i \in 1..Len(hours) |->
                         <<hours[i][1], json_strings(hours[i][2])>>])

json_hours(r) ==
    json_object(<< <<"location", json_string(r.location)>>,
                   <<"today", json_string(r.today)>>,
                   <<"current_time", json_string(r.current_time)>>,
                   <<"hours", json_table(r.hours)>>,
                   <<"status", json_string(r.status)>>,
                   <<"note", json_string(r.note)>> >>)

json_time(r) ==
    json_object(<< <<"current_time", json_string(r.current_time)>>,
                   <<"day_of_week", json_string(r.day_of_week)>>,
                   <<"date", json_string(r.date)>>,
                   <<"is_weekend", json_bool(r.is_weekend)>>,
                   <<"day_type", json_string(r.day_type)>>,
                   <<"hint", json_string(r.hint)>> >>)

\* json.dumps(result, default=str) on the result of each tool
json_dumps(tool, result) ==
    CASE tool = "list_locations" -> json_strings(result)
      [] tool = "get_build_your_own_options" -> json_build(result)
      [] tool = "get_location_hours" -> json_hours(result)
      [] tool = "get_current_time" -> json_time(result)
      [] OTHER -> json_items(result)

\* json.dumps({"error": message})
json_error(message) == json_object(<< <<"error", json_string(message)>> >>)

-----------------------------------------------------------------------------
(* ai_coach.py: execute_tool_call *)

Reply(text) == [text |-> text]

\* (a dispatcher without the except clause)
execute_tool_call_Uncaught(tool_name, arguments, rows, locs, tables, now, later) ==
    IF tool_name \notin TOOL_FUNCTIONS
    THEN Reply(json_error("Unknown tool: " \o tool_name))
    ELSE LET result == CallTool(tool_name, arguments, rows, locs, tables, now, later)
         IN  IF Raised(result) THEN result
             ELSE Reply(json_dumps(tool_name, result.value))

execute_tool_call(tool_name, arguments, rows, locs, tables, now, later) ==
    IF tool_name \notin TOOL_FUNCTIONS
    THEN Reply(json_error("Unknown tool: " \o tool_name))
    ELSE LET result == CallTool(tool_name, arguments, rows, locs, tables, now, later)
         IN  IF Raised(result) THEN Reply(json_error(result.message))
             ELSE Reply(json_dumps(tool_name, result.value))

ToolCall(tool_name, arguments, tables) ==
    [tool_name |-> tool_name, arguments |-> arguments, tables |-> tables]

\* the tool calls of the model: names in and out of TOOL_FUNCTIONS, arguments
\* right, unknown, missing and of the wrong type, with and without the tables
ToolCalls ==
    { ToolCall("nope", <<>>, TRUE),
      ToolCall("say \"hi\"", <<>>, TRUE),
      ToolCall("", << <<"limit", IntValue(1)>> >>, TRUE),
      ToolCall("search_menu", <<>>, TRUE),
      ToolCall("search_menu", <<>>, FALSE),
      ToolCall("search_menu", << <<"colour", StrValue("red")>> >>, TRUE),
      ToolCall("search_menu", << <<"period", IntValue(5)>> >>, TRUE),
      ToolCall("search_menu", << <<"keywords", IntValue(5)>> >>, TRUE),
      ToolCall("search_menu", << <<"limit", StrValue("ten")>> >>, TRUE),
      ToolCall("search_menu", << <<"location", IntValue(5)>> >>, TRUE),
      ToolCall("search_menu", << <<"keywords", ListValue(<<"chicken">>)>>,
                                 <<"limit", IntValue(1)>> >>, TRUE),
      ToolCall("get_location_items", <<>>, TRUE),
      ToolCall("get_location_items", << <<"location", StrValue("third north")>>,
                                        <<"limit", IntValue(1)>> >>, TRUE),
      ToolCall("get_high_protein_items", <<>>, TRUE),
      ToolCall("get_low_calorie_items", << <<"limit", IntValue(1)>> >>, TRUE),
      ToolCall("get_complete_meals", << <<"limit", IntValue(1)>> >>, TRUE),
      ToolCall("get_complete_meals", << <<"limit", StrValue("ten")>> >>, TRUE),
      ToolCall("get_build_your_own_options", <<>>, TRUE),
      ToolCall("get_build_your_own_options",
               << <<"location", StrValue("third north")>> >>, TRUE),
      ToolCall("get_build_your_own_options",
               << <<"location", StrValue("third north")>> >>, FALSE),
      ToolCall("get_build_your_own_options",
               << <<"location", StrValue("NYU")>>, <<"limit", StrValue("a")>> >>, TRUE),
      ToolCall("get_location_hours", <<>>, TRUE),
      ToolCall("get_location_hours", << <<"location", StrValue("Upstein")>> >>, FALSE),
      ToolCall("get_location_hours", << <<"location", IntValue(5)>> >>, TRUE),
      ToolCall("list_locations", <<>>, TRUE),
      ToolCall("list_locations", <<>>, FALSE),
      ToolCall("list_locations", << <<"x", IntValue(1)>> >>, TRUE),
      ToolCall("get_current_time", <<>>, TRUE) }

\* the clock readings of a tool call: the tools that read no clock get one
ToolClockReads(tool_name) ==
    IF tool_name \in {"get_location_hours", "get_current_time"}
    THEN { <<Clock(5, "12:30 PM"), Clock(5, "12:30 PM")>>,
           <<Clock(4, "11:59 PM"), Clock(5, "12:00 AM")>> }
    ELSE { <<Clock(0, "12:30 PM"), Clock(0, "12:30 PM")>> }

-----------------------------------------------------------------------------
(* Operations on the store *)

NoCall == [op |-> "none"]

Init ==
    /\ locations = {}
    /\ store = <<>>
    /\ pc = "idle"
    /\ call = NoCall

\* nyu_scraper.save_locations with the list the dining API returns
save_locations ==
    /\ pc = "idle"
    /\ locations' = AllLocations
    /\ UNCHANGED <<store, pc, call>>

\* the lists scrape_location_menu delivers: items of one saved location and
\* one date
Batches ==
    {b \in UNION {[1..n -> ItemPool] : n \in 1..MaxBatch} :
        \A i \in 1..Len(b) : b[i].location_id = b[1].location_id /\ b[i].date = b[1].date}

\* nyu_scraper.save_menu_items(items), called by scrape_all after save_locations
save_menu_items ==
    /\ pc = "idle"
    /\ \E items \in Batches :
          /\ \E l \in locations : l.id = items[1].location_id
          /\ Len(UpsertAll(store, items)) <= MaxRows
          /\ store' = UpsertAll(store, items)
    /\ UNCHANGED <<locations, pc, call>>

\* (a search that clears the rows of earlier scrape days on its way)
Search_Pruning ==
    /\ pc = "idle"
    /\ \E prompt \in SearchPrompts, limit \in 0..MaxLimit, date \in {Null} \cup Dates :
          call' = [ op |-> "search", prompt |-> prompt, limit |-> limit,
                    out |-> search(store, locations, prompt, limit, date) ]
    /\ pc' = "done"
    /\ store' = SelectSeq(store, LAMBDA r : r.date = MaxDate(store))
    /\ UNCHANGED locations

\* MenuMatcher.search(prompt, limit, date)
Search ==
    /\ pc = "idle"
    /\ \E prompt \in SearchPrompts, limit \in 0..MaxLimit, date \in {Null} \cup Dates :
          call' = [ op |-> "search", prompt |-> prompt, limit |-> limit,
                    out |-> search(store, locations, prompt, limit, date) ]
    /\ pc' = "done"
    /\ UNCHANGED <<locations, store>>

\* MenuMatcher.get_locations()
GetLocations ==
    /\ pc = "idle"
    /\ call' = [op |-> "get_locations", out |-> get_locations(locations)]
    /\ pc' = "done"
    /\ UNCHANGED <<locations, store>>

\* MenuMatcher.get_stats(date)
GetStats ==
    /\ pc = "idle"
    /\ \E date \in {Null} \cup Dates :
          call' = [ op |-> "get_stats", date |-> date,
                    out |-> get_stats(store, locations, date) ]
    /\ pc' = "done"
    /\ UNCHANGED <<locations, store>>

\* tools.get_complete_meals(...)
GetCompleteMeals ==
    /\ pc = "idle"
    /\ \E a \in MealArgs :
          call' = [ op |-> "get_complete_meals", args |-> a,
                    out |-> get_complete_meals(store, locations, a) ]
    /\ pc' = "done"
    /\ UNCHANGED <<locations, store>>

\* tools.search_menu(...)
SearchMenu ==
    /\ pc = "idle"
    /\ \E a \in MenuCalls :
          call' = [ op |-> "search_menu", args |-> a,
                    out |-> search_menu(store, locations, a) ]
    /\ pc' = "done"
    /\ UNCHANGED <<locations, store>>

\* tools.get_location_hours(location)
GetLocationHours ==
    /\ pc = "idle"
    /\ \E location \in HoursLocations, reads \in ClockReads :
          call' = [ op |-> "get_location_hours", location |-> location,
                    now |-> reads[1], later |-> reads[2],
                    out |-> HoursTable[location, reads] ]
    /\ pc' = "done"
    /\ UNCHANGED <<locations, store>>

\* tools.get_build_your_own_options(location, ...)
GetBuildYourOwnOptions ==
    /\ pc = "idle"
    /\ \E a \in BuildArgs :
          call' = [ op |-> "get_build_your_own_options", args |-> a,
                    out |-> get_build_your_own_options(store, locations, a) ]
    /\ pc' = "done"
    /\ UNCHANGED <<locations, store>>

\* ai_coach.execute_tool_call(tool_name, arguments)
ExecuteToolCall ==
    /\ pc = "idle"
    /\ \E c \in ToolCalls : \E reads \in ToolClockReads(c.tool_name) :
          call' = [ op |-> "execute_tool_call", tool_name |-> c.tool_name,
                    arguments |-> c.arguments, tables |-> c.tables,
                    now |-> reads[1], later |-> reads[2],
                    out |-> execute_tool_call(c.tool_name, c.arguments, store, locations,
                                              c.tables, reads[1], reads[2]) ]
    /\ pc' = "done"
    /\ UNCHANGED <<locations, store>>

\* the caller takes the result
Return ==
    /\ pc = "done"
    /\ pc' = "idle"
    /\ call' = NoCall
    /\ UNCHANGED <<locations, store>>

Next ==
    \/ save_locations
    \/ save_menu_items
    \/ Search
    \/ GetLocations
    \/ GetStats
    \/ GetCompleteMeals
    \/ SearchMenu
    \/ GetLocationHours
    \/ GetBuildYourOwnOptions
    \/ ExecuteToolCall
    \/ Return

Spec == Init /\ [][Next]_vars

-----------------------------------------------------------------------------
(* The pure functions, applied to inputs drawn by InitPure *)

ParsedInputs == {ParsedQueries[p] : p \in AllPrompts} \ {ValueError}

PureInputs ==
    {[op |-> "_parse_prompt", prompt |-> p] : p \in AllPrompts}
        \cup {[op |-> "_score_item", item |-> x[1], parsed |-> x[2]] :
                 x \in ItemPool \X ParsedInputs}
        \cup {[op |-> "_classify_item_type", category |-> c] : c \in Categories}

InitPure ==
    /\ locations = {}
    /\ store = <<>>
    /\ pc = "idle"
    /\ call \in PureInputs

ParsePrompt ==
    /\ pc = "idle" /\ call.op = "_parse_prompt"
    /\ call' = [op |-> call.op, prompt |-> call.prompt, out |-> ParsedQueries[call.prompt]]
    /\ pc' = "done"
    /\ UNCHANGED <<locations, store>>

ScoreItem ==
    /\ pc = "idle" /\ call.op = "_score_item"
    /\ call' = [op |-> call.op, item |-> call.item, parsed |-> call.parsed,
                out |-> _score_item(call.item, call.parsed)]
    /\ pc' = "done"
    /\ UNCHANGED <<locations, store>>

Classify ==
    /\ pc = "idle" /\ call.op = "_classify_item_type"
    /\ call' = [op |-> call.op, category |-> call.category,
                out |-> _classify_item_type(call.category)]
    /\ pc' = "done"
    /\ UNCHANGED <<locations, store>>

NextPure ==
    \/ ParsePrompt
    \/ ScoreItem
    \/ Classify

SpecPure == InitPure /\ [][NextPure]_vars

-----------------------------------------------------------------------------
(* Reads repeated against a store that nothing writes *)

\* the contents menu_items can have: at most MaxRows rows, no key twice
Stores ==
    {st \in UNION {[1..n -> ItemPool] : n \in 0..MaxRows} :
        \A i, j \in 1..Len(st) : Key(st[i]) = Key(st[j]) => i = j}

\* the calls that are repeated
RepeatPrompts == {"chicken", "high protein lunch"}
RepeatMenuCalls ==
    { MenuArgs,
      [MenuArgs EXCEPT !.limit = MaxLimit],
      [MenuArgs EXCEPT !.min_protein = 20, !.period = "Lunch", !.limit = 5] }

\* a call as it is remembered, and the earlier calls a new call may follow
Past(c) == IF c.op = "none" THEN NoCall ELSE [op |-> c.op, args |-> c.args, out |-> c.out]
Earlier(c) == {Past(c)} \cup (IF c.op = "none" THEN {} ELSE {c.before})

InitReads ==
    /\ locations = AllLocations
    /\ store \in Stores
    /\ pc = "idle"
    /\ call = NoCall

\* MenuMatcher.search(prompt, limit) after other reads
SearchAgain ==
    /\ \E prompt \in RepeatPrompts, limit \in {MaxLimit}, b \in Earlier(call) :
          call' = [ op |-> "search", args |-> [prompt |-> prompt, limit |-> limit],
                    out |-> search(store, locations, prompt, limit, Null).results,
                    before |-> b ]
    /\ UNCHANGED <<locations, store, pc>>

\* tools.search_menu(...) after other reads
SearchMenuAgain ==
    /\ \E a \in RepeatMenuCalls, b \in Earlier(call) :
          call' = [ op |-> "search_menu", args |-> a,
                    out |-> search_menu(store, locations, a), before |-> b ]
    /\ UNCHANGED <<locations, store, pc>>

NextReads ==
    \/ SearchAgain
    \/ SearchMenuAgain

SpecReads == InitReads /\ [][NextReads]_vars

-----------------------------------------------------------------------------
(* Build-your-own stations: the tool on menus of station items *)

StationStores ==
    {st \in UNION {[1..n -> StationPool] : n \in 0..MaxRows} :
        \A i, j \in 1..Len(st) : Key(st[i]) = Key(st[j]) => i = j}

InitStations ==
    /\ locations = AllLocations
    /\ store \in StationStores
    /\ pc = "idle"
    /\ call = NoCall

NextStations ==
    \/ GetBuildYourOwnOptions
    \/ Return

SpecStations == InitStations /\ [][NextStations]_vars

-----------------------------------------------------------------------------
(* The scraper saving one list after another *)

\* nyu_scraper.save_menu_items(items); the call keeps the table as it was
\* and whether the list before it was the same one
SaveItems ==
    /\ pc = "idle"
    /\ \E items \in Batches :
          /\ \E l \in locations : l.id = items[1].location_id
          /\ Len(UpsertAll(store, items)) <= MaxRows
          /\ store' = UpsertAll(store, items)
          /\ call' = [ op |-> "save_menu_items", items |-> items, before |-> store,
                       again |-> call.op = "save_menu_items" /\ call.items = items ]
    /\ UNCHANGED <<locations, pc>>

InitSaves ==
    /\ locations = AllLocations
    /\ store = <<>>
    /\ pc = "idle"
    /\ call = NoCall

NextSaves == SaveItems

SpecSaves == InitSaves /\ [][NextSaves]_vars

-----------------------------------------------------------------------------
(* The tools on one day's menu of several rows *)

\* the rows the scraper delivered for one day
MenuPool == {
    MenuItem("L1", 2, "Lunch", "Fresh 140 Sandwich", "Turkey Club", "",
             520, 25, 41, 18, 3, 6, 980, ""),
    MenuItem("L2", 2, "Lunch", "Paper Lantern Sides", "Vegetable Lo Mein", "",
             310, 8, 48, 9, 3, 5, 760, "Vegan"),
    MenuItem("L2", 2, "Lunch", "Random Station XYZ", "Garden Bowl", "",
             400, 9, 55, 12, 8, 7, 420, "Vegan"),
    MenuItem("L1", 2, "Lunch", "Salad Bar Protein", "Tuna Salad", "",
             280, Null, 6, 20, 1, 2, 540, ""),
    MenuItem("L2", 2, "Dinner", "Vedgecraft", "Tofu Stir Fry", "",
             Null, 18, Null, 9, 5, 4, 610, "Vegan,Avoiding Gluten"),
    MenuItem("L2", 2, "Supper", "Halal Station", "Chicken Over Rice", "",
             650, 35, 60, 22, 2, 3, 1200, "Halal") }

MenuStores ==
    {st \in UNION {[1..n -> MenuPool] : n \in 0..MaxMenu} :
        \A i, j \in 1..Len(st) : Key(st[i]) = Key(st[j]) => i = j}

\* the calls of search_menu that name a period
PeriodCalls ==
    {[MenuArgs EXCEPT !.period = p] :
        p \in {"Dinner", "dinner", "DINNER", "Supper", "supper", "SUPPER", "Lunch"}}

\* the calls of get_high_protein_items
HighProteinCalls ==
    [ min_protein : {0, 15, 23}, location : {None}, period : {None, "Lunch"},
      limit : {MaxLimit, 15} ]

\* the calls of get_complete_meals with the default floor
MealCalls ==
    {a \in MealArgs : a.min_calories = 250 /\ GivenFilters(a) \subseteq {"period"}}

InitTools ==
    /\ locations = AllLocations
    /\ store \in MenuStores
    /\ pc = "idle"
    /\ call = NoCall

\* tools.search_menu(period=...)
SearchMenuByPeriod ==
    /\ pc = "idle"
    /\ \E a \in PeriodCalls :
          call' = [ op |-> "search_menu", args |-> a,
                    out |-> search_menu(store, locations, a) ]
    /\ pc' = "done"
    /\ UNCHANGED <<locations, store>>

\* tools.get_high_protein_items(min_protein, location, period, limit)
GetHighProteinItems ==
    /\ pc = "idle"
    /\ \E a \in HighProteinCalls :
          call' = [ op |-> "get_high_protein_items", args |-> a,
                    out |-> get_high_protein_items(store, locations, a) ]
    /\ pc' = "done"
    /\ UNCHANGED <<locations, store>>

\* tools.get_complete_meals(period, limit)
GetCompleteMealsOfMenu ==
    /\ pc = "idle"
    /\ \E a \in MealCalls :
          call' = [ op |-> "get_complete_meals", args |-> a,
                    out |-> get_complete_meals(store, locations, a) ]
    /\ pc' = "done"
    /\ UNCHANGED <<locations, store>>

NextTools ==
    \/ SearchMenuByPeriod
    \/ GetHighProteinItems
    \/ GetCompleteMealsOfMenu
    \/ Return

SpecTools == InitTools /\ [][NextTools]_vars

-----------------------------------------------------------------------------
(* ai_coach.py: get_recommendation *)

\* the opening of SYSTEM_PROMPT
SYSTEM_PROMPT == "You are CampusBite, a friendly and knowledgeable nutrition coach for college students."

UserQueries == {"high protein lunch", ""}

\* json.dumps of one argument value and of a dict of arguments
json_value(v) ==
    CASE IsStr(v) -> json_string(v.str)
      [] IsInt(v) -> ToString(v.int)
      [] IsList(v) -> json_strings(v.list)
      [] OTHER -> "null"
json_arguments(arguments) ==
    json_object([i \in 1..Len(arguments) |->
                    <<arguments[i][1], json_value(arguments[i][2])>>])

\* the dicts the argument texts of the model stand for
CoachArguments == { <<>>,
                    << <<"limit", IntValue(1)>> >>,
                    << <<"colour", StrValue("red")>> >> }

\* an argument text cut off by max_tokens
Truncated == "{\"location\": \"third nor"

\* json.loads(tool_call.function.arguments): the text of a dict decodes to
\* the dict, a text that is no JSON document raises
json_loads(text) ==
    IF \E a \in CoachArguments : json_arguments(a) = text
    THEN Value(CHOOSE a \in CoachArguments : json_arguments(a) = text)
    ELSE Exception("JSONDecodeError",
                   IF text = "" THEN "Expecting value: line 1 column 1 (char 0)"
                   ELSE "Unterminated string starting at: line 1 column 14 (char 13)")

\* tool_call.function of the tool calls the model asks for: one that succeeds,
\* one the tool rejects, one whose arguments are cut off
Function(name, arguments) == [name |-> name, arguments |-> arguments]
CoachCalls == { Function("get_complete_meals", "{\"limit\": 1}"),
                Function("search_menu", "{\"colour\": \"red\"}"),
                Function("get_location_items", Truncated) }

\* response.choices[0].message of the n-th call of the model: a final answer,
\* or up to MaxCalls tool calls, each with an id of its own
Responses(n) ==
    {[role |-> "assistant", content |-> "Try the Turkey Club.", tool_calls |-> <<>>]}
        \cup {[ role |-> "assistant", content |-> None,
                tool_calls |-> [i \in 1..Len(fs) |->
                    [ id |-> "call_" \o ToString(n) \o "_" \o ToString(i),
                      function |-> fs[i] ]] ] :
                fs \in UNION {[1..k -> CoachCalls] : k \in 1..MaxCalls}}

CoachStores == {<<>>} \cup {<<it>> : it \in {x \in ItemPool : x.calories = 520}}

InitCoach ==
    /\ locations = AllLocations
    /\ store \in CoachStores
    /\ pc = "idle"
    /\ call = NoCall

\* get_recommendation(user_query) up to its first call of the model;
\* requests and responses keep what the model was sent and what it answered
GetRecommendation ==
    /\ pc = "idle"
    /\ \E user_query \in UserQueries :
          call' = [ op |-> "get_recommendation",
                    messages |-> << [role |-> "system", content |-> SYSTEM_PROMPT],
                                    [role |-> "user", content |-> user_query] >>,
                    assistant_message |-> [role |-> "assistant", content |-> None,
                                           tool_calls |-> <<>>],
                    next |-> 1, requests |-> <<>>, responses |-> <<>>,
                    out |-> Value(None) ]
    /\ pc' = "create"
    /\ UNCHANGED <<locations, store>>

\* response = client.chat.completions.create(messages=messages, ...);
\* assistant_message = response.choices[0].message; then the test of the
\* while loop and, inside it, messages.append(assistant_message).
\* The model asks for tools at most MaxRounds times.
Create ==
    /\ pc = "create"
    /\ \E r \in Responses(Len(call.requests) + 1) :
          /\ Len(call.requests) = MaxRounds => r.tool_calls = <<>>
          /\ call' = [call EXCEPT !.requests = Append(@, call.messages),
                                   !.responses = Append(@, r),
                                   !.assistant_message = r,
                                   !.next = 1,
                                   !.messages = IF r.tool_calls # <<>>
                                                THEN Append(@, r) ELSE @]
          /\ pc' = IF r.tool_calls # <<>> THEN "tools" ELSE "return"
    /\ UNCHANGED <<locations, store>>

\* one pass of: for tool_call in assistant_message.tool_calls
RunToolCall ==
    /\ pc = "tools"
    /\ LET tool_calls == call.assistant_message.tool_calls
           tool_call  == tool_calls[call.next]
           arguments  == json_loads(tool_call.function.arguments)
           noon       == Clock(0, "12:30 PM")
       IN  IF Raised(arguments)
           THEN /\ call' = [call EXCEPT !.out = arguments]
                /\ pc' = "raised"
           ELSE LET result == execute_tool_call(tool_call.function.name,
                                  arguments.value, store, locations, TRUE, noon, noon)
                IN  /\ call' = [call EXCEPT
                          !.messages = Append(@, [ role |-> "tool",
                                                   tool_call_id |-> tool_call.id,
                                                   content |-> result.text ]),
                          !.next = @ + 1]
                    /\ pc' = IF call.next = Len(tool_calls) THEN "create" ELSE "tools"
    /\ UNCHANGED <<locations, store>>

\* return assistant_message.content
ReturnContent ==
    /\ pc = "return"
    /\ call' = [call EXCEPT !.out = Value(call.assistant_message.content)]
    /\ pc' = "done"
    /\ UNCHANGED <<locations, store>>

\* chat(): except Exception as e: print the error, and read the next query
ReportError ==
    /\ pc = "raised"
    /\ pc' = "idle"
    /\ call' = NoCall
    /\ UNCHANGED <<locations, store>>

NextCoach ==
    \/ GetRecommendation
    \/ Create
    \/ RunToolCall
    \/ ReturnContent
    \/ ReportError
    \/ Return

SpecCoach == InitCoach /\ [][NextCoach]_vars

-----------------------------------------------------------------------------
(* The connections a call opens and closes *)

\* sqlite3.connect calls made and conn.close() calls reached
Connections(opened, closed) == [opened |-> opened, closed |-> closed]

\* MenuMatcher.search, get_locations, get_stats: one connection, opened after
\* the prompt is parsed and closed after the last query; a failing query
\* raises past conn.close()
matcher_connections(tables) == Connections(1, IF tables THEN 1 ELSE 0)

\* the tools: search_menu opens its connection, _get_current_date opens and
\* closes a second one, then the filters are built and the query runs, then
\* conn.close(); list_locations uses one connection; the hours and the clock
\* use none
tool_connections(tool, arguments, tables) ==
    IF tool \notin TOOL_FUNCTIONS \/ BindFault(tool, arguments) # <<>>
    THEN Connections(0, 0)
    ELSE LET b == Bind(tool, arguments) IN
         CASE tool \in {"get_current_time", "get_location_hours"} -> Connections(0, 0)
           [] tool = "list_locations" -> Connections(1, IF tables THEN 1 ELSE 0)
           [] tool = "get_complete_meals" /\ IsNone(b.limit) -> Connections(0, 0)
           [] OTHER ->
                IF SearchFaults(Forwarded(tool, b), tables) = <<>> THEN Connections(2, 2)
                ELSE IF ~tables THEN Connections(2, 0)
                ELSE Connections(2, 1)

\* the connections of a finished call that are still open: those it did not
\* close, unless the garbage collector has met them already
StillOpen(connections, collected) ==
    IF collected THEN 0 ELSE connections.opened - connections.closed

InitFiles ==
    /\ locations = AllLocations
    /\ store \in Stores
    /\ pc = "idle"
    /\ call = NoCall

\* MenuMatcher.search(prompt, limit) on a database file with or without its
\* tables; the exception it raises keeps the frame, and the connection, alive
SearchOnFile ==
    /\ pc = "idle"
    /\ \E prompt \in RepeatPrompts, tables \in BOOLEAN :
          call' = [ op |-> "search", prompt |-> prompt, limit |-> MaxLimit,
                    tables |-> tables,
                    out |-> IF tables
                            THEN search(store, locations, prompt, MaxLimit, Null)
                            ELSE Exception("OperationalError",
                                           "no such table: menu_items"),
                    open |-> StillOpen(matcher_connections(tables), FALSE) ]
    /\ pc' = "done"
    /\ UNCHANGED <<locations, store>>

\* MenuMatcher.get_locations()
GetLocationsOnFile ==
    /\ pc = "idle"
    /\ \E tables \in BOOLEAN :
          call' = [ op |-> "get_locations", tables |-> tables,
                    out |-> IF tables THEN Value(get_locations(locations))
                            ELSE Exception("OperationalError",
                                           "no such table: locations"),
                    open |-> StillOpen(matcher_connections(tables), FALSE) ]
    /\ pc' = "done"
    /\ UNCHANGED <<locations, store>>

\* MenuMatcher.get_stats(date)
GetStatsOnFile ==
    /\ pc = "idle"
    /\ \E date \in {Null} \cup Dates, tables \in BOOLEAN :
          call' = [ op |-> "get_stats", date |-> date, tables |-> tables,
                    out |-> IF tables THEN Value(get_stats(store, locations, date))
                            ELSE Exception("OperationalError",
                                           "no such table: menu_items"),
                    open |-> StillOpen(matcher_connections(tables), FALSE) ]
    /\ pc' = "done"
    /\ UNCHANGED <<locations, store>>

\* ai_coach.execute_tool_call(tool_name, arguments): the exception is dropped
\* at the end of the except clause, and the collector may or may not have
\* run when the call returns
ExecuteToolCallOnFile ==
    /\ pc = "idle"
    /\ \E c \in ToolCalls, collected \in BOOLEAN :
          LET noon == Clock(0, "12:30 PM") IN
          call' = [ op |-> "execute_tool_call", tool_name |-> c.tool_name,
                    arguments |-> c.arguments, tables |-> c.tables,
                    out |-> execute_tool_call(c.tool_name, c.arguments, store,
                                              locations, c.tables, noon, noon),
                    open |-> StillOpen(tool_connections(c.tool_name, c.arguments,
                                                        c.tables), collected) ]
    /\ pc' = "done"
    /\ UNCHANGED <<locations, store>>

NextFiles ==
    \/ SearchOnFile
    \/ GetLocationsOnFile
    \/ GetStatsOnFile
    \/ ExecuteToolCallOnFile
    \/ Return

SpecFiles == InitFiles /\ [][NextFiles]_vars

-----------------------------------------------------------------------------
(* A scrape running while a search is under way *)

\* the rows search_menu fetches for a date it has resolved: WHERE, ORDER BY
\* and LIMIT over the table as it is when the query runs
MenuQuery(rows, locs, a, date) ==
    LET matched == SelectSeq(Joined(rows, locs), LAMBDA j : MenuWhere(j, date, a))
        ordered == IF a.min_protein # Null /\ a.min_protein # 0
                   THEN OrderBy(<<>>, matched, "protein", TRUE)
                   ELSE OrderBy(<<>>, matched, "calories", FALSE)
    IN  SqlLimit(ordered, a.limit)

InitRace ==
    /\ locations = AllLocations
    /\ store = <<>>
    /\ pc = "idle"
    /\ call = NoCall

\* save_menu_items, one item: INSERT OR REPLACE INTO menu_items. The row is
\* taken as visible to readers at once; with the one commit at the end of a
\* list readers see fewer of these intermediate tables, never others.
UpsertRow ==
    /\ \E item \in ItemPool :
          /\ \E l \in locations : l.id = item.location_id
          /\ Len(Upsert(store, item)) <= MaxRows
          /\ store' = Upsert(store, item)
    /\ UNCHANGED <<locations, pc, call>>

\* MenuMatcher.search up to its first query: SELECT MAX(date) FROM menu_items
SearchLatestDate ==
    /\ pc = "idle"
    /\ \E prompt \in RepeatPrompts :
          call' = [ op |-> "search", prompt |-> prompt, limit |-> MaxLimit,
                    date |-> MaxDate(store) ]
    /\ pc' = "dated"
    /\ UNCHANGED <<locations, store>>

\* MenuMatcher.search from its row query on; seen is the table the query read
SearchRows ==
    /\ pc = "dated" /\ call.op = "search"
    /\ LET parsed  == ParsedQueries[call.prompt]
           fetched == FetchRows(store, locations, call.date, parsed)
           results == SortByScore(<<>>, ScoreRows(fetched, call.prompt))
       IN  call' = [ op |-> "search", prompt |-> call.prompt, limit |-> call.limit,
                     date |-> call.date, seen |-> store,
                     out |-> [ date |-> call.date, rows |-> fetched,
                               results |-> Slice(results, call.limit) ] ]
    /\ pc' = "done"
    /\ UNCHANGED <<locations, store>>

\* tools.search_menu up to date = _get_current_date()
SearchMenuLatestDate ==
    /\ pc = "idle"
    /\ \E a \in RepeatMenuCalls :
          call' = [op |-> "search_menu", args |-> a, date |-> MaxDate(store)]
    /\ pc' = "dated"
    /\ UNCHANGED <<locations, store>>

\* tools.search_menu from c.execute(query, params) on
SearchMenuRows ==
    /\ pc = "dated" /\ call.op = "search_menu"
    /\ LET fetched == MenuQuery(store, locations, call.args, call.date)
       IN  call' = [ op |-> "search_menu", args |-> call.args,
                     date |-> call.date, seen |-> store,
                     out |-> [ date |-> call.date, rows |-> fetched,
                               results |-> Dedupe(fetched, {}) ] ]
    /\ pc' = "done"
    /\ UNCHANGED <<locations, store>>

NextRace ==
    \/ UpsertRow
    \/ SearchLatestDate
    \/ SearchRows
    \/ SearchMenuLatestDate
    \/ SearchMenuRows
    \/ Return

SpecRace == InitRace /\ [][NextRace]_vars

-----------------------------------------------------------------------------
(* Properties *)

Min(a, b) == IF a <= b THEN a ELSE b

IsSearch == pc = "done" /\ call.op = "search"
IsMeals == pc = "done" /\ call.op = "get_complete_meals"
IsParse == pc = "done" /\ call.op = "_parse_prompt" /\ ~Raised(call.out)
IsScore == pc = "done" /\ call.op = "_score_item"
IsClassify == pc = "done" /\ call.op = "_classify_item_type"

\* C1: every item get_complete_meals returns has item_type "entree" (never
\* "component" or "other") and calories that are not null and not below the
\* min_calories floor of the call, whatever the store and the arguments.
C1_CompleteMealsAreEntreesAboveFloor ==
    IsMeals =>
        \A i \in 1..Len(call.out) :
            /\ call.out[i].item_type = "entree"
            /\ call.out[i].item_type \notin {"component", "other"}
            /\ call.out[i].calories # Null
            /\ call.out[i].calories >= call.args.min_calories

\* a call that returns a meal while the latest menu also holds a non-entree row
\* with calories at or above the floor and no other filter to exclude it
C1_Witness ==
    /\ IsMeals
    /\ Len(call.out) > 0
    /\ GivenFilters(call.args) = {}
    /\ \E i \in 1..Len(store) :
          /\ store[i].date = MaxDate(store)
          /\ ItemTypes[store[i].category] # "entree"
          /\ store[i].calories >= call.args.min_calories

\* category.lower() is one of the names of the list
ListedIn(category, names) ==
    \E m \in names : Truthy(category) /\ Lower(category) = m

HintedAt(category) ==
    Truthy(category) /\ \E x \in {"choose your", "bar", "toppings", "sides", "sauce"} :
                            Contains(Lower(category), x)

\* C2: _classify_item_type decides in a fixed order: a category in the component
\* list (ignoring case) is "component"; else one in the entree list is "entree";
\* else one containing a component hint is "component"; else "other".
\* "Salad Bar Toppings" is a component, "True Burger" an entree,
\* "Random Station XYZ" and a null or empty category are "other".
C2_ClassifyOrder ==
    IsClassify =>
        /\ ListedIn(call.category, COMPONENT_CATEGORIES) => call.out = "component"
        /\ /\ ~ListedIn(call.category, COMPONENT_CATEGORIES)
           /\ ListedIn(call.category, ENTREE_CATEGORIES)
           => call.out = "entree"
        /\ /\ ~ListedIn(call.category, COMPONENT_CATEGORIES)
           /\ ~ListedIn(call.category, ENTREE_CATEGORIES)
           => call.out = (IF HintedAt(call.category) THEN "component" ELSE "other")
        /\ call.category = "Salad Bar Toppings" => call.out = "component"
        /\ call.category = "True Burger" => call.out = "entree"
        /\ call.category = "Random Station XYZ" => call.out = "other"
        /\ call.category \in {None, ""} => call.out = "other"

\* a category named by both lists has been classified
C2_Witness ==
    /\ IsClassify
    /\ ListedIn(call.category, COMPONENT_CATEGORIES)
    /\ ListedIn(call.category, ENTREE_CATEGORIES)

\* the score search gave the i-th fetched row
RowScore(i) == Scores[call.out.rows[i].row, call.prompt]

\* the fetched rows with a positive score
Positive == {i \in 1..Len(call.out.rows) : RowScore(i).score > 0}

\* place of the i-th fetched row in the ranking: after every row of larger
\* score and every earlier row of equal score
Rank(i) ==
    1 + Cardinality({j \in Positive :
            \/ RowScore(j).score > RowScore(i).score
            \/ RowScore(j).score = RowScore(i).score /\ j < i})

\* C3: search returns exactly the first `limit` elements of the fetched rows of
\* positive score, ordered by score descending, rows of equal score in fetch
\* order; so every result has score > 0, scores never increase along the list
\* and there are at most `limit` results.
C3_SearchRanksAndTruncates ==
    IsSearch =>
        LET results == call.out.results IN
        /\ Len(results) = Min(call.limit, Cardinality(Positive))
        /\ \A i \in Positive :
              Rank(i) <= call.limit
                  => results[Rank(i)] = MatchResult(call.out.rows[i], RowScore(i))
        /\ \A k \in 1..Len(results) : results[k].score > 0
        /\ \A k \in 1..(Len(results) - 1) : results[k].score >= results[k + 1].score
        /\ Len(results) <= call.limit

\* two different rows of equal score have been returned
C3_Witness ==
    /\ IsSearch
    /\ Len(call.out.results) >= 2
    /\ call.out.results[1].score = call.out.results[2].score
    /\ call.out.results[1] # call.out.results[2]

-----------------------------------------------------------------------------
(* What a score is made of, counted from the item and the parsed query *)

KeywordHit(item, kw) ==
    Contains(Lower(item.name), kw) \/ Contains(Lower(item.description), kw)

\* tag is one of the comma-separated entries of the stored tag string
HasTag(tags, tag) ==
    \/ tags = tag
    \/ StartsAt(tags, tag \o ",", 1)
    \/ StartsAt(tags, "," \o tag, Len(tags) - Len(tag))
    \/ Contains(tags, "," \o tag \o ",")

TagHit(item, tag) == HasTag(item.dietary_tags, tag)

PeriodHit(item, parsed) == Truthy(parsed.period) /\ item.period = parsed.period

FilterHit(item, f) ==
    /\ item[f.nutrient] # Null
    /\ \/ f.op = ">=" /\ item[f.nutrient] >= f.target
       \/ f.op = "<=" /\ item[f.nutrient] <= f.target

\* entries of the keyword list that match, and distinct keywords that match
KeywordEntries(item, parsed) ==
    {i \in 1..Len(parsed.food_keywords) : KeywordHit(item, parsed.food_keywords[i])}
DistinctKeywords(item, parsed) ==
    {parsed.food_keywords[i] : i \in KeywordEntries(item, parsed)}
TagEntries(item, parsed) ==
    {i \in 1..Len(parsed.dietary_filters) : TagHit(item, parsed.dietary_filters[i])}
FilterEntries(item, parsed) ==
    {i \in 1..Len(parsed.nutrition_filters) : FilterHit(item, parsed.nutrition_filters[i])}
PeriodCount(item, parsed) == IF PeriodHit(item, parsed) THEN 1 ELSE 0

\* the part of a score that is not due to dietary tags, period or nutrition
KeywordPart(item, parsed, out) ==
    out.score - 30 * Cardinality(TagEntries(item, parsed))
              - 10 * PeriodCount(item, parsed)
              - 20 * Cardinality(FilterEntries(item, parsed))

\* C4 as stated: the keyword part of the score is 20 times the number of
\* distinct matched keywords, a keyword listed under two food categories
\* counting once.
C4_Original_DistinctKeywords ==
    IsScore =>
        KeywordPart(call.item, call.parsed, call.out)
            = 20 * Cardinality(DistinctKeywords(call.item, call.parsed))

\* C4 (amended): the keyword part of the score is 20 times the number of entries
\* of the parsed food_keywords list that occur in the item's name or
\* description; a keyword that _parse_prompt lists twice, being under two food
\* categories, adds 20 twice.
C4_KeywordPointsPerListEntry ==
    IsScore =>
        KeywordPart(call.item, call.parsed, call.out)
            = 20 * Cardinality(KeywordEntries(call.item, call.parsed))

\* an item scored against a query that lists one matched keyword twice
C4_Witness ==
    /\ IsScore
    /\ Cardinality(KeywordEntries(call.item, call.parsed))
          > Cardinality(DistinctKeywords(call.item, call.parsed))
    /\ call.out.score >= 40

\* the reasons a score should carry, part by part
KeywordReasons(item, parsed) ==
    LET hits == SelectSeq(parsed.food_keywords, LAMBDA kw : KeywordHit(item, kw))
    IN  [i \in 1..Len(hits) |-> "matches '" \o hits[i] \o "'"]
TagReasons(item, parsed) ==
    SelectSeq(parsed.dietary_filters, LAMBDA tag : TagHit(item, tag))
PeriodReasons(item, parsed) ==
    IF PeriodHit(item, parsed) THEN <<parsed.period \o " item">> ELSE <<>>
FilterReasons(item, parsed) ==
    LET hits == SelectSeq(parsed.nutrition_filters, LAMBDA f : FilterHit(item, f))
    IN  [i \in 1..Len(hits) |->
            hits[i].nutrient \o ": " \o FormatValue(hits[i].nutrient, item[hits[i].nutrient])]

-----------------------------------------------------------------------------

\* the parsed query without its k-th nutrition filter
WithoutFilter(parsed, k) ==
    [parsed EXCEPT !.nutrition_filters =
        SubSeq(parsed.nutrition_filters, 1, k - 1)
            \o SubSeq(parsed.nutrition_filters, k + 1, Len(parsed.nutrition_filters))]

\* the nutrition filters of the query whose nutrient the i-th fetched row lacks
NullFilters(i) ==
    LET nf == ParsedQueries[call.prompt].nutrition_filters
    IN  {k \in 1..Len(nf) : call.out.rows[i].row[nf[k].nutrient] = Null}

Returned(i) ==
    \E k \in 1..Len(call.out.results) :
        call.out.results[k] = MatchResult(call.out.rows[i], RowScore(i))

\* C6 as stated: a nutrition filter on a nutrient the item lacks leaves the
\* item's score as it is without that filter, and the item still appears in the
\* search results whenever that score is > 0 (stated here for limit >= 1).
C6_Original_NullNutrientItemAppears ==
    IsSearch /\ call.limit >= 1 =>
        \A i \in 1..Len(call.out.rows) : \A k \in NullFilters(i) :
            /\ RowScore(i) = _score_item(call.out.rows[i].row,
                                WithoutFilter(ParsedQueries[call.prompt], k))
            /\ RowScore(i).score > 0 => Returned(i)

\* C6 (amended): a nutrition filter on a nutrient the item lacks never adds
\* points and never discards the item: score and reasons are those of the
\* query without that filter, and an item whose score is > 0 is a ranked
\* candidate, returned whenever fewer than `limit` rows rank before it.
C6_NullNutrientNeitherScoresNorDiscards ==
    IsSearch =>
        \A i \in 1..Len(call.out.rows) : \A k \in NullFilters(i) :
            /\ RowScore(i) = _score_item(call.out.rows[i].row,
                                WithoutFilter(ParsedQueries[call.prompt], k))
            /\ RowScore(i).score > 0 /\ Rank(i) <= call.limit => Returned(i)

\* a row lacking a filtered nutrient has been returned on its other merits
C6_Witness ==
    /\ IsSearch
    /\ \E i \in 1..Len(call.out.rows) :
          NullFilters(i) # {} /\ RowScore(i).score > 0 /\ Returned(i)

\* C7: an item whose stored dietary tags include "Vegan", scored against a
\* query whose dietary_filters contain "Vegan" (as the prompt "vegan" gives),
\* scores at least 30 and has "Vegan" among its reasons, other tags or not.
C7_VeganTagScoresThirty ==
    /\ InSeq("Vegan", ParsedQueries["Vegan"].dietary_filters)
    /\ IsScore /\ HasTag(call.item.dietary_tags, "Vegan")
               /\ InSeq("Vegan", call.parsed.dietary_filters)
          => call.out.score >= 30 /\ InSeq("Vegan", call.out.reasons)

\* an item tagged Vegan and Avoiding Gluten scored against the prompt "Vegan"
C7_Witness ==
    /\ IsScore
    /\ call.item.dietary_tags = "Vegan,Avoiding Gluten"
    /\ call.parsed = ParsedQueries["Vegan"]
    /\ call.out.score >= 30

\* C8: for the prompt "high protein lunch" (period Lunch, protein >= 20, no food
\* keyword) search returns no item of another period, so no Breakfast item,
\* and a Lunch item with 25 g protein that matches nothing else scores exactly
\* 30, with the period reason and then the protein reason.
C8_HighProteinLunch ==
    /\ ParsedQueries["high protein lunch"] =
          [ food_keywords |-> <<>>, dietary_filters |-> <<>>,
            nutrition_filters |-> <<Filter("protein", ">=", 20)>>,
            period |-> "Lunch", location_preference |-> None ]
    /\ IsSearch /\ call.prompt = "high protein lunch" =>
          \A k \in 1..Len(call.out.results) :
              LET r == call.out.results[k] IN
              /\ r.period = "Lunch"
              /\ r.period # "Breakfast"
              /\ r.protein = 25 => /\ r.score = 30
                                   /\ r.match_reasons = <<"Lunch item", "protein: 25.0">>

\* the search has returned the Lunch item with 25 g protein from a menu that
\* also holds a Breakfast item with 30 g protein
C8_Witness ==
    /\ IsSearch /\ call.prompt = "high protein lunch"
    /\ \E k \in 1..Len(call.out.results) :
          call.out.results[k].protein = 25 /\ call.out.results[k].score = 30
    /\ \E i \in 1..Len(store) :
          /\ store[i].period = "Breakfast" /\ store[i].protein = 30
          /\ store[i].date = call.out.date

AllEmpty(parsed) ==
    /\ parsed.food_keywords = <<>>
    /\ parsed.dietary_filters = <<>>
    /\ ~Truthy(parsed.period)
    /\ parsed.nutrition_filters = <<>>

\* C9: if the parsed query has no food keywords, no dietary filters, no period
\* and no nutrition filters, as for an empty or whitespace-only prompt, every
\* item scores 0 with no reasons and search returns an empty list, whatever the
\* store holds.
C9_EmptyQueryMatchesNothing ==
    /\ AllEmpty(ParsedQueries[""]) /\ AllEmpty(ParsedQueries["  "])
    /\ IsSearch /\ AllEmpty(ParsedQueries[call.prompt]) =>
          /\ call.out.results = <<>>
          /\ \A it \in ItemPool : Scores[it, call.prompt] = Scored(0, <<>>)

\* a whitespace-only prompt has been searched for on a menu with rows
C9_Witness ==
    /\ IsSearch /\ call.prompt = "  "
    /\ Len(call.out.rows) > 0
    /\ call.out.results = <<>>

\* the numbers of the numeric phrases in the prompts
PhraseNumbers == {25, 30, 300, 600, 700}

\* the phrase occurs in s, not as the tail of a longer number
HasPhrase(s, phrase) ==
    \E i \in 1..Len(s) : StartsAt(s, phrase, i) /\ ~IsDigit(CharAt(s, i - 1))

\* the filter the parsed query holds for the nutrient is exactly f
OnlyFilter(parsed, f) ==
    LET at == {k \in 1..Len(parsed.nutrition_filters) :
                  parsed.nutrition_filters[k].nutrient = f.nutrient}
    IN  Cardinality(at) = 1 /\ \A k \in at : parsed.nutrition_filters[k] = f

\* C10: numeric phrases take precedence over the generic nutrition patterns:
\* a prompt containing "under N cal" or "under N calories" has the calories
\* filter (<=, N) exactly, and one containing "N g protein" or "N grams
\* protein" has the protein filter (>=, N) exactly, whichever generic patterns
\* match the same prompt.
C10_NumericPhrasesTakePrecedence ==
    IsParse =>
        \A n \in PhraseNumbers :
            LET s == Lower(call.prompt)
                N == ToString(n)
            IN  /\ HasPhrase(s, "under " \o N \o " cal")
                      => OnlyFilter(call.out, Filter("calories", "<=", n))
                /\ \/ HasPhrase(s, N \o "g protein")
                   \/ HasPhrase(s, N \o " g protein")
                   \/ HasPhrase(s, N \o " grams protein")
                   \/ HasPhrase(s, N \o " grams of protein")
                      => OnlyFilter(call.out, Filter("protein", ">=", n))

\* a prompt with a numeric phrase and a generic pattern for the same nutrient
\* with another operator or threshold has been parsed
C10_Witness ==
    /\ IsParse
    /\ Contains(Lower(call.prompt), "bulking")
    /\ Contains(Lower(call.prompt), "under 300 cal")
    /\ Contains(Lower(call.prompt), "high protein")
    /\ Contains(Lower(call.prompt), "30g protein")
    /\ OnlyFilter(call.out, Filter("calories", "<=", 300))
    /\ OnlyFilter(call.out, Filter("protein", ">=", 30))

\* the period literals of _parse_prompt and where each first occurs in s
PeriodLiterals == <<"breakfast", "lunch", "dinner">>
PeriodNames == <<"Breakfast", "Lunch", "Dinner">>
FirstAt(s, lit) == Leftmost({i \in 1..Len(s) : StartsAt(s, lit, i)})
Named(s) == {k \in 1..3 : Contains(s, PeriodLiterals[k])}

\* C11 as stated: the parsed period is None exactly when no period literal
\* occurs in the lower-cased prompt, and otherwise it is the period whose
\* literal occurs first, left to right, in the text.
C11_Original_PeriodFirstInText ==
    IsParse =>
        LET s == Lower(call.prompt) IN
        /\ call.out.period = None <=> Named(s) = {}
        /\ \A k \in Named(s) :
              (\A m \in Named(s) : FirstAt(s, PeriodLiterals[k]) <= FirstAt(s, PeriodLiterals[m]))
                  => call.out.period = PeriodNames[k]

\* C11: the parsed period is None exactly when none of "breakfast", "lunch",
\* "dinner" occurs in the lower-cased prompt; otherwise it is the single
\* period of the first literal, in the fixed order breakfast, lunch, dinner,
\* that occurs anywhere in the text, whatever else the text names and
\* wherever the literals stand.
C11_PeriodByFixedPriority ==
    IsParse =>
        LET s == Lower(call.prompt) IN
        /\ call.out.period = None <=> Named(s) = {}
        /\ \A k \in Named(s) :
              (\A m \in Named(s) : k <= m) => call.out.period = PeriodNames[k]

\* a prompt naming lunch before breakfast has been parsed to Breakfast
C11_Witness ==
    /\ IsParse
    /\ LET s == Lower(call.prompt) IN
          /\ Named(s) = {1, 2}
          /\ FirstAt(s, "lunch") < FirstAt(s, "breakfast")
    /\ call.out.period = "Breakfast"

\* str.upper() and str.lower() on the letters of the prompts
RECURSIVE Upper(_)
Upper(s) ==
    IF Len(s) = 0 THEN ""
    ELSE IF Len(s) = 1
         THEN (IF \E i \in 1..Len(LowerChars) : SubSeq(LowerChars, i, i) = s
               THEN LET i == CHOOSE j \in 1..Len(LowerChars) : SubSeq(LowerChars, j, j) = s
                    IN  SubSeq(UpperChars, i, i)
               ELSE s)
    ELSE LET half == Len(s) \div 2
         IN  Upper(SubSeq(s, 1, half)) \o Upper(SubSeq(s, half + 1, Len(s)))

IsParseCall == pc = "done" /\ call.op = "_parse_prompt"

\* C12 as stated: _parse_prompt is total and deterministic: every call
\* returns a parsed query and raises nothing, a second evaluation on the
\* same text gives the same value, and so does the text in another letter
\* case.
C12_Original_ParseTotalDeterministic ==
    IsParseCall =>
        /\ ~Raised(call.out)
        /\ call.out = _parse_prompt(call.prompt)
        /\ call.out = _parse_prompt(Upper(call.prompt))
        /\ call.out = _parse_prompt(Lower(call.prompt))

\* C13: every _score_item call returns a score that is not negative, leaves
\* the item and the parsed query it was given as they were, and returns the
\* (score, reasons) pair that any other evaluation on the same item and
\* parsed query returns.
C13_ScoreNonNegativePure ==
    [][ (pc = "idle" /\ call.op = "_score_item" /\ pc' = "done") =>
            /\ call'.item = call.item
            /\ call'.parsed = call.parsed
            /\ call'.out.score >= 0
            /\ call'.out = _score_item(call'.item, call'.parsed)
            /\ call'.out = _score_item(call.item, call.parsed) ]_vars

\* an item has been scored against a query that asks for a dietary tag the
\* item lacks and holds a nutrition filter besides, and has earned nothing
C13_Witness ==
    /\ IsScore
    /\ Len(call.parsed.dietary_filters) > 0
    /\ \A k \in 1..Len(call.parsed.dietary_filters) :
          ~HasTag(call.item.dietary_tags, call.parsed.dietary_filters[k])
    /\ Len(call.parsed.nutrition_filters) > 0
    /\ call.out.score = 0

IsSearchCall == pc = "done" /\ call.op = "search"
IsMenu == pc = "done" /\ call.op = "search_menu"

\* C15: absent data gives an empty list and no error: search on a store with
\* no row for the resolved date (a store without rows resolves the latest
\* date to null) returns the empty list, and search_menu whose filters no row
\* of the latest date satisfies returns the empty list; as with min_protein
\* = 20, period = "Lunch" on a menu without such a lunch item.
C15_NoDataIsEmptyNotError ==
    /\ IsSearchCall =>
          /\ ~Raised(call.out)
          /\ (\A i \in 1..Len(store) : store[i].date # call.out.date)
                => call.out.results = <<>>
          /\ call.out.date = Null => call.out.results = <<>>
    /\ IsMenu =>
          /\ (\A i \in 1..Len(store) :
                 ~MenuWhere([row |-> store[i], location_name |-> ""], MaxDate(store),
                            [call.args EXCEPT !.location = None]))
                => call.out = <<>>
          /\ (/\ call.args.min_protein = 20 /\ call.args.period = "Lunch"
              /\ \A i \in 1..Len(store) :
                    store[i].period = "Lunch" /\ store[i].date = MaxDate(store)
                        => store[i].protein < 20)
                => call.out = <<>>

\* search has been called for a prompt that matches menu items, on a store
\* without any row
C15_Witness ==
    /\ IsSearchCall
    /\ store = <<>>
    /\ call.prompt = "chicken"
    /\ call.out.date = Null
    /\ call.out.results = <<>>

IsHours == pc = "done" /\ call.op = "get_location_hours"

\* the day type of a weekday number, counted from Monday = 0
DayTypeOf(day) ==
    CASE day \in 0..3 -> "weekday" [] day = 4 -> "friday"
      [] day = 5 -> "saturday" [] day = 6 -> "sunday"

\* the table locations whose name contains the string, letter case aside
TableNames == [k \in 1..Len(DINING_HOURS) |-> Lower(DINING_HOURS[k].name)]
HoursMatches(location) ==
    LET asked == Lower(location) IN
    {k \in 1..Len(DINING_HOURS) : Contains(TableNames[k], asked)}

\* C17: get_location_hours returns a structured result for every location
\* string on every day: when no table location contains the string, hours
\* None and status "Unknown"; otherwise the result is about a table location
\* that contains the string, and it holds hours None, status "CLOSED today"
\* and a note naming the location if that location has no entry for the
\* current day type, and the period -> (open, close) table of that day type
\* with status "Open today" if it has one.
C17_LocationHoursStructured ==
    IsHours =>
        LET out == call.out
            day_type == DayTypeOf(call.later.weekday)
            matches == HoursMatches(call.location)
        IN  /\ DOMAIN out = {"location", "today", "current_time", "hours", "status", "note"}
            /\ matches = {} =>
                  out.hours = NoHours /\ out.status = "Unknown"
            /\ matches # {} =>
                  \E k \in matches :
                      LET entry == DINING_HOURS[k] IN
                      /\ out.location = entry.name
                      /\ entry.all_hours[day_type] = NoHours =>
                            /\ out.hours = NoHours
                            /\ out.status = "CLOSED today"
                            /\ Contains(out.note, entry.name)
                      /\ entry.all_hours[day_type] # NoHours =>
                            /\ out.hours = entry.all_hours[day_type]
                            /\ out.status = "Open today"

\* the hours of a location that is closed on Saturdays have been asked for
\* on a Saturday
C17_Witness ==
    /\ IsHours
    /\ call.location = "Upstein"
    /\ call.later.weekday = 5
    /\ call.out.status = "CLOSED today"
    /\ call.out.hours = NoHours

IsBuild == pc = "done" /\ call.op = "get_build_your_own_options"

Groups == {"proteins", "bases", "toppings", "sauces"}

\* the components among the rows the call fetches
FetchedComponents(rows, locs, a) ==
    SelectSeq(search_menu(rows, locs,
                  [MenuArgs EXCEPT !.location = a.location, !.period = a.period,
                                   !.dietary_tags = a.dietary_tags, !.limit = 100]),
              LAMBDA item : item.item_type = "component")

\* C18: every item of proteins, bases, toppings and sauces is a component
\* among the fetched rows; no component is in two groups or twice in one,
\* and when the limit cuts nothing off every fetched component is in
\* exactly one group; a component with non-null protein >= 8 is in no group
\* but proteins, and is in proteins unless that list was cut at the limit,
\* whatever its name.
C18_ComponentsGrouped ==
    IsBuild =>
        LET out   == call.out
            a     == call.args
            comps == FetchedComponents(store, locations, a)
            In(c, g) == \E i \in 1..Len(out[g]) : out[g][i] = c
            whole == a.limit >= Len(comps)
        IN  /\ \A g \in Groups : \A i \in 1..Len(out[g]) :
                  /\ out[g][i].item_type = "component"
                  /\ \E k \in 1..Len(comps) : comps[k] = out[g][i]
                  /\ \A j \in 1..Len(out[g]) : out[g][j] = out[g][i] => j = i
            /\ \A g \in Groups : Len(out[g]) <= a.limit
            /\ \A k \in 1..Len(comps) :
                  /\ Cardinality({g \in Groups : In(comps[k], g)}) <= 1
                  /\ whole => Cardinality({g \in Groups : In(comps[k], g)}) = 1
                  /\ comps[k].protein # Null /\ comps[k].protein >= 8 =>
                        /\ \A g \in Groups \ {"proteins"} : ~In(comps[k], g)
                        /\ whole \/ Len(out.proteins) < a.limit => In(comps[k], "proteins")

\* a component without a protein keyword in its name listed as a protein,
\* next to a topping
C18_Witness ==
    /\ IsBuild
    /\ \E i \in 1..Len(call.out.proteins) :
          /\ call.out.proteins[i].name = "Cottage Cheese"
          /\ call.out.proteins[i].protein >= 8
    /\ \E i \in 1..Len(call.out.toppings) : call.out.toppings[i].name = "Cherry Tomatoes"

\* C19 as stated: the items of one get_build_your_own_options result all
\* belong to one dining location.
C19_Original_OneLocation ==
    IsBuild =>
        Cardinality(UNION {{call.out[g][i].location : i \in 1..Len(call.out[g])} :
                              g \in Groups}) <= 1

IsExec == pc = "done" /\ call.op = "execute_tool_call"

\* the backslashes standing right before position i of s
Backslashes(s, i) ==
    CHOOSE n \in 0..(i - 1) :
        /\ \A k \in 1..n : CharAt(s, i - k) = "\\"
        /\ n = i - 1 \/ CharAt(s, i - n - 1) # "\\"

\* the text is a JSON object whose only member is "error", a string
IsErrorObject(text) ==
    LET head == "{\"error\": \""
        tail == "\"}"
        body == SubSeq(text, Len(head) + 1, Len(text) - Len(tail))
    IN  /\ Len(text) >= Len(head) + Len(tail)
        /\ SubSeq(text, 1, Len(head)) = head
        /\ SubSeq(text, Len(text) - Len(tail) + 1, Len(text)) = tail
        /\ \A i \in 1..Len(body) : CharAt(body, i) = "\"" => Backslashes(body, i) % 2 = 1
        /\ Backslashes(body, Len(body) + 1) % 2 = 0

Given(c, k) == \E i \in 1..Len(c.arguments) : c.arguments[i][1] = k
GivenAs(c, k) == c.arguments[CHOOSE i \in 1..Len(c.arguments) : c.arguments[i][1] = k][2]

\* the ways a call of a known tool fails: an unknown argument, a missing
\* required argument, an argument of a type the tool cannot use, a
\* database file without the tables
UnknownArgument(c) ==
    \E i \in 1..Len(c.arguments) : c.arguments[i][1] \notin Parameters(c.tool_name)
MissingArgument(c) ==
    /\ c.tool_name \in {"get_location_items", "get_build_your_own_options",
                        "get_location_hours"}
    /\ ~Given(c, "location")
WrongType(c) ==
    \/ Given(c, "period") /\ IsInt(GivenAs(c, "period")) /\ GivenAs(c, "period").int # 0
    \/ Given(c, "keywords") /\ IsInt(GivenAs(c, "keywords"))
            /\ GivenAs(c, "keywords").int # 0
    \/ Given(c, "limit") /\ IsStr(GivenAs(c, "limit"))
    \/ c.tool_name = "get_location_hours" /\ Given(c, "location")
            /\ ~IsStr(GivenAs(c, "location"))
StoreFailure(c) ==
    ~c.tables /\ c.tool_name \notin {"get_location_hours", "get_current_time"}

ReadOps == { "search", "get_locations", "get_stats", "search_menu",
             "get_complete_meals", "get_build_your_own_options",
             "get_location_hours", "execute_tool_call" }

\* C20: the matching engine and the tools only read: a step in which search,
\* get_locations, get_stats, search_menu, get_complete_meals,
\* get_build_your_own_options, get_location_hours or execute_tool_call runs
\* leaves the rows of menu_items and of locations as they were.
C20_ReadsLeaveStoreUnchanged ==
    [][pc = "idle" /\ pc' = "done" /\ call'.op \in ReadOps
          => store' = store /\ locations' = locations]_vars

\* a search has run on a store that holds rows of two scrape days
C20_Witness ==
    /\ pc = "done"
    /\ call.op = "search"
    /\ \E i, j \in 1..Len(store) : store[i].date # store[j].date

IsSave == call.op = "save_menu_items"

\* the rows of a table, whatever their ids
Contents(rows) == {rows[i] : i \in 1..Len(rows)}

\* the item a list saves last under key k
LastSaved(items, k) ==
    items[CHOOSE i \in 1..Len(items) :
            /\ Key(items[i]) = k
            /\ \A j \in (i + 1)..Len(items) : Key(items[j]) # k]

\* C23: menu_items holds at most one row per (location_id, date, period,
\* category, name); after save_menu_items each key of the list has the one
\* row the list saved last for it, a row that stood under that key before is
\* gone, all other rows are as they were; and saving the same list again
\* leaves the contents of the table unchanged.
C23_UpsertIsUniqueAndIdempotent ==
    /\ \A i, j \in 1..Len(store) : Key(store[i]) = Key(store[j]) => i = j
    /\ IsSave =>
          LET keys == {Key(call.items[i]) : i \in 1..Len(call.items)}
          IN  /\ \A k \in keys :
                    {r \in Contents(store) : Key(r) = k} = {LastSaved(call.items, k)}
              /\ {r \in Contents(store) : Key(r) \notin keys}
                    = {r \in Contents(call.before) : Key(r) \notin keys}
              /\ Len(store) = Cardinality(keys \cup {Key(r) : r \in Contents(call.before)})
              /\ call.again => Contents(store) = Contents(call.before)

\* a save that found a row of other content under its key, in a table of
\* two rows
C23_Witness ==
    /\ IsSave
    /\ Len(store) = 2
    /\ \E r \in Contents(call.before) :
          /\ Key(r) = Key(call.items[1])
          /\ r # call.items[1]

\* the signals of the query a row matches
Signals(item, parsed) ==
    Cardinality(KeywordEntries(item, parsed)) + Cardinality(TagEntries(item, parsed))
        + Cardinality(FilterEntries(item, parsed))

\* C24: search fetches every row of the resolved date, of the parsed period
\* when there is one, and no other; with no period parsed, a row of that
\* date matching at least one keyword, dietary tag or nutrition filter has a
\* score > 0 and is ranked, whatever else of the query it fails, and is
\* returned when the limit leaves room for every ranked row.
C24_OnlyDateAndPeriodExclude ==
    IsSearch =>
        LET parsed  == ParsedQueries[call.prompt]
            fetched == {call.out.rows[k].row : k \in 1..Len(call.out.rows)}
        IN  /\ fetched = {r \in Contents(store) :
                            /\ r.date = call.out.date
                            /\ Truthy(parsed.period) => r.period = parsed.period}
            /\ ~Truthy(parsed.period) =>
                  \A r \in Contents(store) :
                      r.date = call.out.date /\ Signals(r, parsed) > 0 =>
                          \E k \in Positive :
                              /\ call.out.rows[k].row = r
                              /\ RowScore(k).score > 0
                              /\ Cardinality(Positive) <= call.limit =>
                                    \E n \in 1..Len(call.out.results) :
                                        call.out.results[n] =
                                            MatchResult(call.out.rows[k], RowScore(k))

\* a row returned for "low carb under 700 calories" that keeps under the
\* calories and exceeds the carbs
C24_Witness ==
    /\ IsSearch
    /\ call.prompt = "low carb under 700 calories"
    /\ \E n \in 1..Len(call.out.results) :
          /\ call.out.results[n].name = "Turkey Club"
          /\ call.out.results[n].calories = 520
          /\ call.out.results[n].carbs = 41
          /\ call.out.results[n].score > 0

\* C27: the two allow-lists are consistent: a name of ENTREE_CATEGORIES is
\* classified "entree", a name of COMPONENT_CATEGORIES is classified
\* "component", and no name stands in both lists.
C27_Original_ListsConsistent ==
    IsClassify =>
        /\ call.category \in ENTREE_CATEGORIES => call.out = "entree"
        /\ call.category \in COMPONENT_CATEGORIES => call.out = "component"
        /\ ~(call.category \in ENTREE_CATEGORIES
                /\ call.category \in COMPONENT_CATEGORIES)

\* C28: when the prompt names a period, every fetched row has that period and
\* a score of at least 10, so the score > 0 test discards nothing: search
\* returns min(limit, n) results, n the number of rows of the resolved date
\* and that period, among them rows that match nothing else of the query.
C28_PeriodPromptKeepsEveryRow ==
    IsSearch /\ Truthy(ParsedQueries[call.prompt].period) =>
        LET period == ParsedQueries[call.prompt].period
            n == Cardinality({i \in 1..Len(store) :
                                 /\ store[i].date = call.out.date
                                 /\ store[i].period = period})
        IN  /\ \A k \in 1..Len(call.out.rows) :
                  /\ call.out.rows[k].row.period = period
                  /\ RowScore(k).score >= 10
            /\ Positive = 1..Len(call.out.rows)
            /\ Len(call.out.results) = Min(call.limit, n)
            /\ \A m \in 1..Len(call.out.results) :
                  /\ call.out.results[m].period = period
                  /\ call.out.results[m].score >= 10

\* "vegan lunch" returns a lunch row that is not vegan, on its period alone,
\* after a vegan lunch row
C28_Witness ==
    /\ IsSearch
    /\ call.prompt = "vegan lunch"
    /\ Len(call.out.results) = 2
    /\ call.out.results[1].score = 40
    /\ call.out.results[2].score = 10
    /\ call.out.results[2].match_reasons = <<"Lunch item">>

\* the rows search_menu selects among the rows of the latest date when only a
\* period is asked for, as (name, location, period)
ItemKey(r) == <<r.name, r.location, r.period>>
LatestOfPeriods(periods) ==
    LET joined == Joined(store, locations) IN
    {<<joined[i].row.name, joined[i].location_name, joined[i].row.period>> :
        i \in {k \in 1..Len(joined) : /\ joined[k].row.date = MaxDate(store)
                                      /\ Lower(joined[k].row.period) \in periods}}

\* C25: search_menu treats Dinner and Supper as equivalent: a call with
\* period "Dinner" and one with period "Supper", in any letter case and with
\* the other arguments equal, select the same rows, those whose period is
\* dinner or supper.
C25_Original_DinnerSupperEquivalent ==
    IsMenu /\ Truthy(call.args.period)
           /\ Lower(call.args.period) \in {"dinner", "supper"} =>
        {ItemKey(call.out[i]) : i \in 1..Len(call.out)}
            = LatestOfPeriods({"dinner", "supper"})

IsHighProtein == pc = "done" /\ call.op = "get_high_protein_items"

\* C26: get_high_protein_items returns, for every numeric min_protein, only
\* items whose protein is not null and at least min_protein, ordered by
\* protein descending.
C26_Original_HighProteinOrdered ==
    IsHighProtein =>
        /\ \A i \in 1..Len(call.out) :
              /\ call.out[i].protein # Null
              /\ call.out[i].protein >= call.args.min_protein
        /\ \A i \in 1..Len(call.out) - 1 :
              call.out[i].protein >= call.out[i + 1].protein

\* the entrees of the latest date at or above the floor that pass the filters
\* of a get_complete_meals call, as (name, location, period)
QualifyingEntrees ==
    LET joined == Joined(store, locations)
        where  == [MenuArgs EXCEPT !.location = call.args.location,
                                   !.period = call.args.period,
                                   !.dietary_tags = call.args.dietary_tags,
                                   !.min_protein = call.args.min_protein,
                                   !.max_calories = call.args.max_calories,
                                   !.min_calories = call.args.min_calories,
                                   !.max_sodium = call.args.max_sodium,
                                   !.min_fiber = call.args.min_fiber,
                                   !.max_sugar = call.args.max_sugar]
    IN  {<<joined[i].row.name, joined[i].location_name, joined[i].row.period>> :
            i \in {k \in 1..Len(joined) :
                      /\ MenuWhere(joined[k], MaxDate(store), where)
                      /\ ItemTypes[joined[k].row.category] = "entree"
                      /\ joined[k].row.calories # Null
                      /\ joined[k].row.calories >= call.args.min_calories}}

\* C30: get_complete_meals with limit L returns min(L, k) items, k the number
\* of distinct (name, location, period) items of the latest date that satisfy
\* all filters, are classified "entree" and have calories at or above the
\* floor; it never returns fewer than L while more such entrees exist.
C30_Original_MealsFillTheLimit ==
    IsMeals => Len(call.out) = Min(call.args.limit, Cardinality(QualifyingEntrees))

IsCoach == call.op = "get_recommendation"

\* the tool messages that answer the tool calls of a response, ids in order
Answers(history, from, response) ==
    /\ Len(history) = from + Len(response.tool_calls)
    /\ \A i \in 1..Len(response.tool_calls) :
          /\ history[from + i].role = "tool"
          /\ history[from + i].tool_call_id = response.tool_calls[i].id

\* C29: in get_recommendation, for every response of the model with tool
\* calls the history receives that assistant message followed by exactly one
\* tool message per tool call, in order and with the tool call's id, before
\* the model is called again; a failing tool call yields an error payload and
\* does not abort the loop; the function returns only the content of a
\* response without tool calls.
C29_Original_ToolLoop ==
    IsCoach =>
        /\ pc # "raised"
        /\ \A n \in 2..Len(call.requests) :
              LET before   == call.requests[n - 1]
                  response == call.responses[n - 1]
                  history  == call.requests[n]
              IN  /\ response.tool_calls # <<>>
                  /\ SubSeq(history, 1, Len(before) + 1) = Append(before, response)
                  /\ Answers(history, Len(before) + 1, response)
        /\ pc = "done" =>
              /\ call.assistant_message.tool_calls = <<>>
              /\ call.out = Value(call.assistant_message.content)

\* C22: no store connection is held across calls: after any search,
\* get_locations, get_stats or tool call has finished, whether it returned
\* normally or ended with a store or query error, every connection it opened
\* has been closed.
C22_Original_NoConnectionHeld ==
    pc = "done" /\ call.op \in {"search", "get_locations", "get_stats",
                                "execute_tool_call"}
        => call.open = 0

\* C21: the row-level upserts of the scraper (one INSERT OR REPLACE per item,
\* possibly bringing a newer date) interleave with a search or search_menu
\* call at any point, also between the latest-date query of the call and its
\* row query; the call completes without error and every row it returns
\* carries the single date it resolved.
C21_RowsCarryTheResolvedDate ==
    pc = "done" /\ call.op \in {"search", "search_menu"} =>
        /\ ~Raised(call.out)
        /\ call.out.date = call.date
        /\ \A k \in 1..Len(call.out.rows) : call.out.rows[k].row.date = call.date
        /\ Len(call.out.results) <= Len(call.out.rows)
        /\ \A n \in 1..Len(call.out.results) :
              \E k \in 1..Len(call.out.rows) :
                  /\ call.out.rows[k].row.name = call.out.results[n].name
                  /\ call.out.rows[k].row.period = call.out.results[n].period
                  /\ call.out.rows[k].location_name = call.out.results[n].location

\* a search that returns a row of the date it resolved though the table its
\* row query read already held a row of a newer date
C21_Witness ==
    /\ pc = "done" /\ call.op = "search"
    /\ Len(call.out.results) > 0
    /\ \E i \in 1..Len(call.seen) : call.seen[i].date > call.date

====
